---- MODULE Spec2Model ----
(***************************************************************************)
(* A model of sniffly's two-tier project cache:                            *)
(*   - MemoryCache            (sniffly/utils/memory_cache.py)              *)
(*   - LocalCacheService      (sniffly/utils/local_cache.py)               *)
(*   - DataLoader.load_dashboard_data, warm_recent_projects and            *)
(*     GlobalStatsAggregator.process_uncached_projects, which drive them.  *)
(*                                                                         *)
(* Python values: None is the string "None"; a dict is a function whose    *)
(* DOMAIN is its key set; an OrderedDict is a sequence of entries in       *)
(* iteration order.  time.time() is the variable now, in whole seconds.    *)
(***************************************************************************)
EXTENDS Integers, Sequences, FiniteSets, TLC

VARIABLES
    memory_cache,   \* the MemoryCache object (all its attributes)
    now,            \* what time.time() returns
    steps,          \* how many events (handler calls and clock advances) have happened
    call,           \* the last MemoryCache call: its arguments and what it met
    ret,            \* what the last call returned
    introduced,     \* how many of the paths have been passed to a call so far
    hit_at,         \* history: for a cached key, the time of its last get hit
    sources,        \* the *.jsonl files of one project's log directory
    disk,           \* that project's cache directory: metadata.json, stats.json, messages.json
    writer,         \* where the handler that reconciles that project stands, and its locals
    saved_src,      \* history: the source files as they were when the manifest on disk was computed
    file_cache,     \* every project's log directory and cache directory, as the aggregator meets them
    request,        \* the last aggregator call: its arguments and what it met
    summary,        \* what that call returned
    logs,           \* the *.jsonl files of the directory a ClaudeLogProcessor reads, with their lines
    sidecar,        \* that directory's .continuation_cache.json
    processor,      \* the ClaudeLogProcessor object: statistics and running_stats
    returned,       \* what the last process_logs returned or raised
    previous        \* history: returned and processor as the run before the last left them

vars == <<memory_cache, now, steps, call, ret, introduced, hit_at,
          sources, disk, writer, saved_src, file_cache, request, summary,
          logs, sidecar, processor, returned, previous>>
diskvars == <<sources, disk, writer, saved_src>>
aggvars == <<file_cache, request, summary>>
procvars == <<logs, sidecar, processor, returned, previous>>

(***************************************************************************)
(* Bounds of the exploration.                                              *)
(***************************************************************************)
MaxSteps == 6
MaxMisses == 1
MaxHits == 1
MaxRejections == 1

PathList == <<"A", "B", "C", "D">>
Paths == {PathList[i] : i \in 1..Len(PathList)}

None == "None"

\* max_projects ranges over the capacities that the paths can overflow
MaxProjects == Cardinality(Paths) - 1

\* Python values a handler returns
PyNone == [type |-> "NoneType"]
PyBool(b) == [type |-> "bool", value |-> b]
PyTuple(messages, stats) == [type |-> "tuple", messages |-> messages, stats |-> stats]
PyRaise(e) == [type |-> "exception", value |-> e]

(***************************************************************************)
(* MemoryCache                                                             *)
(***************************************************************************)
protection_window == 300

max_mb_per_project == 500

max_bytes_per_project == max_mb_per_project * 1024 * 1024

\* Payloads handed to put: messages and stats with the length of their JSON
\* text.  "d2" is the largest payload the size check accepts and "big" the
\* smallest it rejects (1.5 * 349525334 = 524288001 > 500 MB).
EdgeMessages == [of |-> "d2", len |-> 2, json |-> 349525313, serializable |-> TRUE]
BigMessages == [of |-> "big", len |-> 3, json |-> 349525314, serializable |-> TRUE]
Payloads ==
    { [messages |-> m, stats |-> [of |-> m.of, len |-> 1, json |-> 20]]
        : m \in {EdgeMessages, BigMessages} }

\* _estimate_size: int((len(json(messages)) + len(json(stats))) * 1.5), or
\* len(messages) * 1000 when json.dumps raises.
_estimate_size(messages, stats) ==
    IF messages.serializable
    THEN ((messages.json + stats.json) * 3) \div 2
    ELSE messages.len * 1000

\* dict helpers
DictGet(d, k, default) == IF k \in DOMAIN d THEN d[k] ELSE default
DictPop(d, k) == [q \in DOMAIN d \ {k} |-> d[q]]
DictSet(d, k, v) == [q \in DOMAIN d \cup {k} |-> IF q = k THEN v ELSE d[q]]

\* OrderedDict helpers: a sequence of [path, messages, stats, timestamp, last_accessed]
CacheKeys(cache) == {cache[i].path : i \in 1..Len(cache)}
CacheEntry(cache, p) == cache[CHOOSE i \in 1..Len(cache) : cache[i].path = p]
CachePop(cache, p) == SelectSeq(cache, LAMBDA e : e.path # p)
\* d[k] = v keeps the position of an existing key and appends a new one
CacheSet(cache, e) ==
    IF e.path \in CacheKeys(cache)
    THEN [i \in 1..Len(cache) |-> IF cache[i].path = e.path THEN e ELSE cache[i]]
    ELSE Append(cache, e)

NewMemoryCache(max_projects) ==
    [cache |-> <<>>, last_access |-> <<>>, max_projects |-> max_projects,
     hits |-> 0, misses |-> 0, evictions |-> 0, size_rejections |-> 0]

\* mutant of Get: a hit refreshes the entry but not the protection clock
GetWithoutProtectionRefresh(mc, project_path, t) ==
    IF project_path \in CacheKeys(mc.cache)
    THEN LET e == CacheEntry(mc.cache, project_path)
         IN [mc |-> [mc EXCEPT
                        !.cache = Append(CachePop(mc.cache, project_path),
                                         [e EXCEPT !.last_accessed = t]),
                        !.hits = @ + 1],
             ret |-> PyTuple(e.messages, e.stats)]
    ELSE [mc |-> [mc EXCEPT !.misses = @ + 1], ret |-> PyNone]

\* get: a hit moves the entry to the end and refreshes both access times
Get(mc, project_path, t) ==
    IF project_path \in CacheKeys(mc.cache)
    THEN LET e == CacheEntry(mc.cache, project_path)
         IN [mc |-> [mc EXCEPT
                        !.cache = Append(CachePop(mc.cache, project_path),
                                         [e EXCEPT !.last_accessed = t]),
                        !.last_access = DictSet(mc.last_access, project_path, t),
                        !.hits = @ + 1],
             ret |-> PyTuple(e.messages, e.stats)]
    ELSE [mc |-> [mc EXCEPT !.misses = @ + 1], ret |-> PyNone]

\* mutants of Skipped: the window compared with <=, and the window ignored
SkippedOffByOne(force, age) == ~force /\ age <= protection_window
SkippedNever(force, age) == FALSE

\* line 122: the entries the scan skips
Skipped(force, age) == ~force /\ age < protection_window

\* lines 108-127: the scan for the eviction candidate
RECURSIVE Scan(_, _, _, _, _, _)
Scan(cache, last_access, force, current_time, i, st) ==
    IF i > Len(cache)
    THEN st.eviction_candidate
    ELSE LET path == cache[i].path
             access_time == DictGet(last_access, path, 0)
             age == current_time - access_time
         IN IF Skipped(force, age)
            THEN Scan(cache, last_access, force, current_time, i + 1, st)
            ELSE IF st.inf \/ access_time < st.oldest_access_time
                 THEN Scan(cache, last_access, force, current_time, i + 1,
                           [eviction_candidate |-> path, inf |-> FALSE,
                            oldest_access_time |-> access_time])
                 ELSE Scan(cache, last_access, force, current_time, i + 1, st)

\* mutant of EvictionCandidate: the head of the OrderedDict, whatever the access times
HeadCandidate(cache, last_access, force, current_time) ==
    IF \E i \in 1..Len(cache) :
          ~(~force /\ current_time - DictGet(last_access, cache[i].path, 0) < protection_window)
    THEN cache[1].path
    ELSE None

EvictionCandidate(cache, last_access, force, current_time) ==
    Scan(cache, last_access, force, current_time, 1,
         [eviction_candidate |-> None, inf |-> TRUE, oldest_access_time |-> 0])

\* mutant of TooLarge: the limit taken one byte too high
TooLargeOffByOne(size_estimate) == size_estimate > max_bytes_per_project + 1

\* line 97: the size check
TooLarge(size_estimate) == size_estimate > max_bytes_per_project

\* lines 146-152: store the entry
Store(mc, project_path, messages, stats, t) ==
    [mc EXCEPT
        !.cache = CacheSet(@, [path |-> project_path, messages |-> messages,
                               stats |-> stats, timestamp |-> t, last_accessed |-> t]),
        !.last_access = DictSet(@, project_path, t)]

\* mutant of Evict: the victim's access time stays behind
EvictKeepingAccessTime(mc, victim) ==
    [mc EXCEPT !.cache = CachePop(@, victim),
               !.evictions = @ + 1]

\* lines 129-144: what the capacity branch does with the scan's result
Evict(mc, victim) ==
    [mc EXCEPT !.cache = CachePop(@, victim),
               !.last_access = DictPop(@, victim),
               !.evictions = @ + 1]

Put(mc, project_path, messages, stats, force, t) ==
    IF TooLarge(_estimate_size(messages, stats))
    THEN [mc |-> [mc EXCEPT !.size_rejections = @ + 1], ret |-> PyBool(FALSE), evicted |-> None]
    ELSE IF Len(mc.cache) >= mc.max_projects
         THEN LET eviction_candidate ==
                      EvictionCandidate(mc.cache, mc.last_access, force, t)
              IN IF eviction_candidate # None
                 THEN [mc |-> Store(Evict(mc, eviction_candidate),
                                    project_path, messages, stats, t),
                       ret |-> PyBool(TRUE), evicted |-> eviction_candidate]
                 ELSE IF ~force
                      THEN [mc |-> mc, ret |-> PyBool(FALSE), evicted |-> None]
                      \* popitem(last=False); it raises KeyError on an empty cache
                      ELSE IF Len(mc.cache) = 0
                           THEN [mc |-> mc, ret |-> PyRaise("KeyError"), evicted |-> None]
                           ELSE [mc |-> Store(Evict(mc, mc.cache[1].path),
                                              project_path, messages, stats, t),
                                 ret |-> PyBool(TRUE), evicted |-> mc.cache[1].path]
         ELSE [mc |-> Store(mc, project_path, messages, stats, t),
               ret |-> PyBool(TRUE), evicted |-> None]

Invalidate(mc, project_path) ==
    IF project_path \in CacheKeys(mc.cache)
    THEN [mc |-> [mc EXCEPT !.cache = CachePop(@, project_path),
                            !.last_access = DictPop(@, project_path)],
          ret |-> PyBool(TRUE)]
    ELSE [mc |-> mc, ret |-> PyBool(FALSE)]

Clear(mc) == [mc |-> [mc EXCEPT !.cache = <<>>, !.last_access = <<>>], ret |-> PyNone]

(***************************************************************************)
(* LocalCacheService: one project's log directory and its disk cache       *)
(* directory.  A source file is its st_size and its st_mtime; st_mtime is  *)
(* a float, counted here in ticks of 1/SubSecond s.  A cache file is       *)
(* absent, partial (opened with "w", hence truncated, and not completely   *)
(* dumped: json.load raises on it) or holds a JSON value.                  *)
(***************************************************************************)
SubSecond == 2
AbsentFile == [state |-> "absent"]
PartialFile == [state |-> "partial"]
JsonFile(v) == [state |-> "ok", value |-> v]
EmptyCacheDir == [metadata |-> AbsentFile, stats |-> AbsentFile, messages |-> AbsentFile]

\* Mutant of _calculate_checksums: the size alone.
ChecksumsOfSizeOnly(src) == [f \in DOMAIN src |-> <<src[f].size, 0>>]

\* f"{stat.st_size}_{int(stat.st_mtime)}" for every *.jsonl file.
_calculate_checksums(src) ==
    [f \in DOMAIN src |-> <<src[f].size, src[f].mtime \div SubSecond>>]

has_changes(d, src) ==
    IF d.metadata.state = "absent" THEN TRUE
    ELSE IF d.metadata.state = "partial" THEN TRUE
    ELSE _calculate_checksums(src) # d.metadata.value.file_checksums

get_cached_stats(d, src) ==
    IF has_changes(d, src) THEN PyNone
    ELSE IF d.stats.state = "ok" THEN d.stats.value
    ELSE PyNone

get_cached_messages(d, src) ==
    IF has_changes(d, src) THEN PyNone
    ELSE IF d.messages.state = "ok" THEN d.messages.value
    ELSE PyNone

invalidate_cache(d) == EmptyCacheDir

\* The statistics document of a reconciliation, as far as the aggregator
\* reads it: overview.total_tokens, overview.total_cost,
\* user_interactions.user_commands_analyzed, daily_stats and the dates of the
\* first and last message.  All sizes here are counted per record read.
StatisticsDocument(content, n, daily_stats, first, last) ==
    [of |-> content, len |-> 1, json |-> 20,
     overview |-> [total_tokens |-> [input |-> n, output |-> 2 * n, cache_read |-> 3 * n,
                                     cache_creation |-> 4 * n],
                   total_cost |-> 5 * n],
     user_interactions |-> [user_commands_analyzed |-> n + 1],
     daily_stats |-> daily_stats,
     first_message_date |-> first,
     last_message_date |-> last]

\* process_logs reads every source file: the messages and the statistics of
\* one reconciliation carry the contents they were computed from.  A file
\* of size n holds n records (logs are append-only), and the message list
\* is empty when no file holds a record.
RECURSIVE TotalSize(_)
TotalSize(src) ==
    IF DOMAIN src = {} THEN 0
    ELSE LET f == CHOOSE g \in DOMAIN src : TRUE
         IN src[f].size + TotalSize([g \in DOMAIN src \ {f} |-> src[g]])
process_logs(src) ==
    LET content == [f \in DOMAIN src |-> src[f].size]
        n == TotalSize(src)
    IN [messages |-> [of |-> content, len |-> n, json |-> 2 + 100 * n, serializable |-> TRUE],
        stats |-> StatisticsDocument(content, n, [kind |-> "dict", value |-> <<>>], PyNone, PyNone)]

\* Python truth value of a cached value: None, [] and {} are false.
Truthy(v) == v # PyNone /\ v.len > 0

NoRequest == [op |-> "none"]

IdleWriter == [pc |-> "idle", kind |-> None, outcome |-> "none", phase |-> None,
               messages |-> PyNone, stats |-> PyNone, checksums |-> <<>>, seen |-> <<>>]

(***************************************************************************)
(* The memory cache driven by arbitrary callers.                           *)
(***************************************************************************)
NoCall == [op |-> "none", by |-> None, path |-> None, force |-> FALSE, data |-> None,
           had |-> FALSE, full |-> FALSE, evicted |-> None]

\* Who calls put, and the force each passes: load_dashboard_data
\* (data_loader.py:32,41) and process_uncached_projects
\* (global_aggregator.py:263) leave the default, warm_recent_projects
\* (cache_warmer.py:58) passes force=True.
Callers == {"load_dashboard_data", "warm_recent_projects", "process_uncached_projects"}
PutForce(by) == by = "warm_recent_projects"

CacheInit ==
    /\ memory_cache \in {NewMemoryCache(n) : n \in 1..MaxProjects}
    /\ now = 0
    /\ steps = 0
    /\ call = NoCall
    /\ sources = <<>>
    /\ disk = EmptyCacheDir
    /\ writer = IdleWriter
    /\ saved_src = <<>>
    /\ file_cache = <<>>
    /\ request = NoRequest
    /\ summary = PyNone
    /\ logs = <<>>
    /\ sidecar = PyNone
    /\ processor = PyNone
    /\ returned = PyNone
    /\ previous = PyNone
    /\ ret = PyNone
    /\ hit_at = <<>>
    /\ introduced = 0

\* the clock advances by half a protection window at a time
TickLength == protection_window \div 2

Tick ==
    /\ steps < MaxSteps
    /\ now' = now + TickLength
    /\ steps' = steps + 1
    /\ UNCHANGED <<memory_cache, call, ret, introduced, hit_at>>
    /\ UNCHANGED <<diskvars, aggvars, procvars>>

\* The handlers only compare paths for equality, so a path no call has named
\* yet stands for every such path: calls name the paths already introduced
\* or the next one of PathList.
PathIndex(p) == CHOOSE i \in 1..Len(PathList) : PathList[i] = p
Callable == {PathList[i] : i \in 1..(IF introduced < Len(PathList) THEN introduced + 1 ELSE introduced)}

Did(op, by, path, force, data, r) ==
    /\ memory_cache' = r.mc
    /\ ret' = r.ret
    /\ call' = [op |-> op, by |-> by, path |-> path, force |-> force, data |-> data,
                had |-> path \in CacheKeys(memory_cache.cache),
                full |-> Len(memory_cache.cache) >= memory_cache.max_projects,
                evicted |-> IF op = "put" THEN r.evicted ELSE None]
    /\ hit_at' = LET kept == (DOMAIN hit_at \cap CacheKeys(r.mc.cache))
                                \ (IF op = "put" THEN {r.evicted} ELSE {})
                 IN [k \in kept \cup (IF op = "get" /\ r.ret # PyNone THEN {path} ELSE {})
                       |-> IF op = "get" /\ k = path THEN now ELSE hit_at[k]]
    /\ steps' = steps + 1
    /\ introduced' = IF path \in Paths /\ PathIndex(path) > introduced
                     THEN PathIndex(path) ELSE introduced
    /\ UNCHANGED now
    /\ UNCHANGED <<diskvars, aggvars, procvars>>

CallGet ==
    /\ steps < MaxSteps
    /\ \E p \in Callable :
          /\ IF p \in CacheKeys(memory_cache.cache)
             THEN memory_cache.hits < MaxHits
             ELSE memory_cache.misses < MaxMisses
          /\ Did("get", None, p, FALSE, None, Get(memory_cache, p, now))

CallPut ==
    /\ steps < MaxSteps
    /\ \E p \in Callable, d \in Payloads, by \in Callers :
          /\ TooLarge(_estimate_size(d.messages, d.stats))
                => memory_cache.size_rejections < MaxRejections
          /\ Did("put", by, p, PutForce(by), d.messages.of,
                 Put(memory_cache, p, d.messages, d.stats, PutForce(by), now))

CallInvalidate ==
    /\ steps < MaxSteps
    /\ \E p \in Callable : Did("invalidate", None, p, FALSE, None, Invalidate(memory_cache, p))

CallClear ==
    /\ steps < MaxSteps
    /\ Did("clear", None, None, FALSE, None, Clear(memory_cache))

CacheNext == Tick \/ CallGet \/ CallPut \/ CallInvalidate \/ CallClear

Spec == CacheInit /\ [][CacheNext]_vars

(***************************************************************************)
(* One project's disk cache, written by load_dashboard_data and by         *)
(* process_uncached_projects.  The cache directory is shared with other    *)
(* processes, so a handler's file operations are separate steps: between   *)
(* any two of them another process may read the cache or the coding agent  *)
(* may write the logs.                                                     *)
(***************************************************************************)
MaxEvents == 4
MaxSize == 1
MaxMtime == 2
FileNames == {"a.jsonl"}
ProjectPath == PathList[1]
cachevars == <<now, call, ret, introduced, hit_at>>

DiskInit ==
    /\ memory_cache = NewMemoryCache(1)
    /\ now = 0
    /\ steps = 0
    /\ call = NoCall
    /\ ret = PyNone
    /\ hit_at = <<>>
    /\ introduced = 0
    /\ sources = <<>>
    /\ disk = EmptyCacheDir
    /\ writer = IdleWriter
    /\ saved_src = <<>>
    /\ file_cache = <<>>
    /\ request = NoRequest
    /\ summary = PyNone
    /\ logs = <<>>
    /\ sidecar = PyNone
    /\ processor = PyNone
    /\ returned = PyNone
    /\ previous = PyNone

\* The log directory changes under the program.
AddSource ==
    /\ steps < MaxEvents
    /\ steps' = steps + 1
    /\ \E f \in FileNames \ DOMAIN sources, n \in 0..MaxSize, m \in 0..MaxMtime :
          sources' = [g \in DOMAIN sources \cup {f} |->
                        IF g = f THEN [size |-> n, mtime |-> m] ELSE sources[g]]
    /\ UNCHANGED <<memory_cache, disk, writer, saved_src>>
    /\ UNCHANGED <<cachevars, aggvars, procvars>>
RemoveSource ==
    /\ steps < MaxEvents
    /\ steps' = steps + 1
    /\ \E f \in DOMAIN sources :
          sources' = [g \in DOMAIN sources \ {f} |-> sources[g]]
    /\ UNCHANGED <<memory_cache, disk, writer, saved_src>>
    /\ UNCHANGED <<cachevars, aggvars, procvars>>
ResizeSource ==
    /\ steps < MaxEvents
    /\ steps' = steps + 1
    /\ \E f \in DOMAIN sources, n \in 0..MaxSize, m \in 0..MaxMtime :
          /\ n # sources[f].size
          /\ m >= sources[f].mtime
          /\ sources' = [sources EXCEPT ![f] = [size |-> n, mtime |-> m]]
    /\ UNCHANGED <<memory_cache, disk, writer, saved_src>>
    /\ UNCHANGED <<cachevars, aggvars, procvars>>
RetimestampSource ==
    /\ steps < MaxEvents
    /\ steps' = steps + 1
    /\ \E f \in DOMAIN sources, m \in 0..MaxMtime :
          /\ m # sources[f].mtime
          /\ sources' = [sources EXCEPT ![f].mtime = m]
    /\ UNCHANGED <<memory_cache, disk, writer, saved_src>>
    /\ UNCHANGED <<cachevars, aggvars, procvars>>

\* load_dashboard_data up to the call of process_logs.
LoadDashboardData ==
    /\ writer.pc = "idle"
    /\ steps < MaxEvents
    /\ steps' = steps + 1
    /\ LET g == Get(memory_cache, ProjectPath, now)
           cached_messages == get_cached_messages(disk, sources)
           cached_stats == get_cached_stats(disk, sources)
           ended(how) == [IdleWriter EXCEPT !.kind = "load_dashboard_data", !.outcome = how]
       IN IF g.ret # PyNone
          THEN /\ memory_cache' = g.mc
               /\ writer' = ended("memory")
          ELSE IF Truthy(cached_messages) /\ Truthy(cached_stats) /\ ~has_changes(disk, sources)
          THEN /\ memory_cache' = Put(g.mc, ProjectPath, cached_messages, cached_stats, FALSE, now).mc
               /\ writer' = ended("disk")
          ELSE /\ memory_cache' = g.mc
               /\ writer' = [IdleWriter EXCEPT !.kind = "load_dashboard_data", !.pc = "process_logs"]
    /\ UNCHANGED <<sources, disk, saved_src>>
    /\ UNCHANGED <<cachevars, aggvars, procvars>>

\* process_uncached_projects reaching a project of the list it was given.
ProcessUncachedProject ==
    /\ writer.pc = "idle"
    /\ steps < MaxEvents
    /\ steps' = steps + 1
    /\ writer' = [IdleWriter EXCEPT !.kind = "process_uncached_projects", !.pc = "process_logs"]
    /\ UNCHANGED <<memory_cache, sources, disk, saved_src>>
    /\ UNCHANGED <<cachevars, aggvars, procvars>>

ProcessLogs ==
    /\ writer.pc = "process_logs"
    /\ LET r == process_logs(sources)
       IN writer' = [writer EXCEPT !.pc = "open", !.phase = "stats",
                                   !.messages = r.messages, !.stats = r.stats]
    /\ UNCHANGED <<memory_cache, steps, sources, disk, saved_src>>
    /\ UNCHANGED <<cachevars, aggvars, procvars>>

\* save_cached_stats and save_cached_messages: open(path, "w"), json.dump,
\* then _update_metadata: _calculate_checksums, open(path, "w"), json.dump.
OpenArtifact ==
    /\ writer.pc = "open"
    /\ disk' = [disk EXCEPT ![writer.phase] = PartialFile]
    /\ writer' = [writer EXCEPT !.pc = "dump"]
    /\ UNCHANGED <<memory_cache, steps, sources, saved_src>>
    /\ UNCHANGED <<cachevars, aggvars, procvars>>
DumpArtifact ==
    /\ writer.pc = "dump"
    /\ disk' = [disk EXCEPT ![writer.phase] = JsonFile(writer[writer.phase])]
    /\ writer' = [writer EXCEPT !.pc = "checksums"]
    /\ UNCHANGED <<memory_cache, steps, sources, saved_src>>
    /\ UNCHANGED <<cachevars, aggvars, procvars>>
CalculateChecksums ==
    /\ writer.pc = "checksums"
    /\ writer' = [writer EXCEPT !.pc = "meta_open", !.seen = sources,
                                !.checksums = _calculate_checksums(sources)]
    /\ UNCHANGED <<memory_cache, steps, sources, disk, saved_src>>
    /\ UNCHANGED <<cachevars, aggvars, procvars>>
OpenMetadata ==
    /\ writer.pc = "meta_open"
    /\ disk' = [disk EXCEPT !.metadata = PartialFile]
    /\ writer' = [writer EXCEPT !.pc = "meta_dump"]
    /\ UNCHANGED <<memory_cache, steps, sources, saved_src>>
    /\ UNCHANGED <<cachevars, aggvars, procvars>>
DumpMetadata ==
    /\ writer.pc = "meta_dump"
    /\ disk' = [disk EXCEPT !.metadata = JsonFile([file_checksums |-> writer.checksums])]
    /\ saved_src' = writer.seen
    /\ writer' = [writer EXCEPT !.checksums = <<>>, !.seen = <<>>,
                                !.pc = IF writer.phase = "stats" THEN "open" ELSE "put",
                                !.phase = "messages"]
    /\ UNCHANGED <<memory_cache, steps, sources>>
    /\ UNCHANGED <<cachevars, aggvars, procvars>>

\* memory_cache.put, then load_dashboard_data returns, while
\* process_uncached_projects counts the project and awaits asyncio.sleep.
MemoryPut ==
    /\ writer.pc = "put"
    /\ memory_cache' = Put(memory_cache, ProjectPath, writer.messages, writer.stats,
                           PutForce(writer.kind), now).mc
    /\ writer' = IF writer.kind = "process_uncached_projects"
                 THEN [IdleWriter EXCEPT !.kind = writer.kind, !.pc = "sleep"]
                 ELSE [IdleWriter EXCEPT !.kind = writer.kind, !.outcome = "reconciled"]
    /\ UNCHANGED <<steps, sources, disk, saved_src>>
    /\ UNCHANGED <<cachevars, aggvars, procvars>>
Wake ==
    /\ writer.pc = "sleep"
    /\ writer' = [writer EXCEPT !.pc = "idle", !.outcome = "processed"]
    /\ UNCHANGED <<memory_cache, steps, sources, disk, saved_src>>
    /\ UNCHANGED <<cachevars, aggvars, procvars>>
\* The task is cancelled: CancelledError is raised at the await.
Cancel ==
    /\ writer.pc = "sleep"
    /\ writer' = [writer EXCEPT !.pc = "idle", !.outcome = "cancelled"]
    /\ UNCHANGED <<memory_cache, steps, sources, disk, saved_src>>
    /\ UNCHANGED <<cachevars, aggvars, procvars>>
\* A step raises (a log that cannot be read, a file that cannot be opened,
\* a disk that is full): the exception leaves load_dashboard_data, and
\* process_uncached_projects logs it and goes on to the next project.
Fail ==
    /\ writer.pc \in {"process_logs", "open", "dump", "checksums", "meta_open", "meta_dump"}
    /\ writer' = [IdleWriter EXCEPT !.kind = writer.kind, !.outcome = "failed"]
    /\ UNCHANGED <<memory_cache, steps, sources, disk, saved_src>>
    /\ UNCHANGED <<cachevars, aggvars, procvars>>

\* Between handlers: the refresh path drops the project from either cache.
InvalidateCache ==
    /\ writer.pc = "idle"
    /\ disk # EmptyCacheDir
    /\ disk' = invalidate_cache(disk)
    /\ saved_src' = <<>>
    /\ UNCHANGED <<memory_cache, steps, sources, writer>>
    /\ UNCHANGED <<cachevars, aggvars, procvars>>
MemoryInvalidate ==
    /\ writer.pc \in {"idle", "sleep"}
    /\ ProjectPath \in CacheKeys(memory_cache.cache)
    /\ memory_cache' = Invalidate(memory_cache, ProjectPath).mc
    /\ UNCHANGED <<steps, sources, disk, writer, saved_src>>
    /\ UNCHANGED <<cachevars, aggvars, procvars>>

DiskNext ==
    \/ AddSource \/ RemoveSource \/ ResizeSource \/ RetimestampSource
    \/ LoadDashboardData \/ ProcessUncachedProject \/ ProcessLogs
    \/ OpenArtifact \/ DumpArtifact \/ CalculateChecksums \/ OpenMetadata \/ DumpMetadata
    \/ MemoryPut \/ Wake \/ Cancel \/ Fail
    \/ InvalidateCache \/ MemoryInvalidate

SpecDisk == DiskInit /\ [][DiskNext]_vars

(***************************************************************************)
(* Claims about MemoryCache.  A step of a call is recognised by steps      *)
(* growing; the unprimed memory_cache is the object the call met.          *)
(***************************************************************************)
PayloadOf(tag) == CHOOSE d \in Payloads : d.messages.of = tag
Oversized(tag) ==
    LET d == PayloadOf(tag)
    IN _estimate_size(d.messages, d.stats) > max_mb_per_project * 1024 * 1024
PutStep == steps' = steps + 1 /\ now' = now /\ call'.op = "put"
GetStep == steps' = steps + 1 /\ now' = now /\ call'.op = "get"
Keys == CacheKeys(memory_cache.cache)
AtCapacity == Len(memory_cache.cache) >= memory_cache.max_projects
Age(p) == now - memory_cache.last_access[p]
Unprotected == {p \in Keys : Age(p) >= protection_window}
IndexOf(cache, p) == CHOOSE i \in 1..Len(cache) : cache[i].path = p
\* the entry a successful put(path, d) leaves in the cache
Stored(mc, path, tag) ==
    /\ path \in CacheKeys(mc.cache)
    /\ CacheEntry(mc.cache, path).messages = PayloadOf(tag).messages
    /\ CacheEntry(mc.cache, path).stats = PayloadOf(tag).stats

\* C1: put(key, force=false) of a new key with an accepted size into a full
\* cache that holds an entry last accessed 300 s or more ago evicts exactly
\* one entry, the oldest-accessed of the entries outside the protection
\* window and none inside it, stores the key, returns True and leaves the
\* entry count at max_projects.
C1_PutEvictsOldestUnprotected ==
    [][ ( /\ PutStep /\ ~call'.force /\ ~Oversized(call'.data)
          /\ call'.path \notin Keys
          /\ Len(memory_cache.cache) = memory_cache.max_projects
          /\ Unprotected # {} )
        => LET gone == Keys \ CacheKeys(memory_cache'.cache)
           IN /\ Cardinality(gone) = 1
              /\ gone \subseteq Unprotected
              /\ \A e \in gone, u \in Unprotected :
                     memory_cache.last_access[e] <= memory_cache.last_access[u]
              /\ CacheKeys(memory_cache'.cache) = (Keys \ gone) \cup {call'.path}
              /\ memory_cache'.evictions = memory_cache.evictions + 1
              /\ Stored(memory_cache', call'.path, call'.data)
              /\ ret' = PyBool(TRUE)
              /\ Len(memory_cache'.cache) = memory_cache.max_projects
      ]_vars

\* C1 witness: a non-forced put of a new key has just evicted the older of
\* two unprotected entries from a full cache of two.
C1_Witness ==
    /\ call.op = "put" /\ ~call.force /\ ~call.had /\ call.full
    /\ call.evicted # None /\ ret = PyBool(TRUE)
    /\ memory_cache.max_projects = 2 /\ Len(memory_cache.cache) = 2
    /\ \E p \in Keys \ {call.path} :
          /\ Age(p) >= protection_window
          /\ memory_cache.last_access[call.path] = now
    /\ memory_cache.evictions = 1

\* C2: put(force=false) into a full cache whose entries were all accessed
\* within the protection window returns False and changes neither the
\* keys, the stored values, the access times nor the evictions counter.
C2_PutRejectedWhenAllProtected ==
    [][ ( /\ PutStep /\ ~call'.force /\ AtCapacity /\ Unprotected = {} )
        => /\ ret' = PyBool(FALSE)
           /\ memory_cache'.cache = memory_cache.cache
           /\ memory_cache'.last_access = memory_cache.last_access
           /\ memory_cache'.evictions = memory_cache.evictions
      ]_vars

\* C2 witness: a non-forced put of an accepted size has just been refused by
\* a full cache in which every entry is protected.
C2_Witness ==
    /\ call.op = "put" /\ ~call.force /\ call.full /\ ~Oversized(call.data)
    /\ ret = PyBool(FALSE)
    /\ AtCapacity /\ Unprotected = {}
    /\ memory_cache.max_projects >= 2

\* C3: put(force=true) with an accepted size returns True and stores the
\* key; at capacity it evicts exactly one entry, one whose last access (by
\* get or put) is the oldest of all entries, protected or not.
C3_ForcedPutEvictsGlobalLRU ==
    [][ ( PutStep /\ call'.force /\ ~Oversized(call'.data) )
        => /\ ret' = PyBool(TRUE)
           /\ Stored(memory_cache', call'.path, call'.data)
           /\ IF AtCapacity
              THEN /\ call'.evicted \in Keys
                   /\ \A q \in Keys : memory_cache.last_access[call'.evicted]
                                          <= memory_cache.last_access[q]
                   /\ CacheKeys(memory_cache'.cache)
                         = (Keys \ {call'.evicted}) \cup {call'.path}
                   /\ memory_cache'.evictions = memory_cache.evictions + 1
              ELSE /\ call'.evicted = None
                   /\ CacheKeys(memory_cache'.cache) = Keys \cup {call'.path}
                   /\ memory_cache'.evictions = memory_cache.evictions
      ]_vars

\* C3 witness: max_projects = 3 and put(A), put(B), put(C), get(A),
\* put(D, force=true) have run; B was evicted although it is protected.
C3_Witness ==
    /\ memory_cache.max_projects = 3 /\ steps = 5
    /\ call.op = "put" /\ call.force /\ call.path = "D" /\ call.evicted = "B"
    /\ memory_cache.hits = 1 /\ memory_cache.misses = 0
    /\ memory_cache.evictions = 1 /\ memory_cache.size_rejections = 0
    /\ [i \in 1..Len(memory_cache.cache) |-> memory_cache.cache[i].path] = <<"C", "A", "D">>
    /\ now < protection_window

\* C4: after get(key) hits at time t, key's protection clock is at least t,
\* every entry last accessed before t sits before key in LRU order, and no
\* put(force=false) made before t + 300 evicts key.
C4_GetRefreshesOrderAndProtection ==
    [][ /\ ( PutStep /\ ~call'.force /\ call'.evicted \in DOMAIN hit_at )
           => now >= hit_at[call'.evicted] + protection_window
        /\ \A k \in DOMAIN hit_at' :
              /\ k \in CacheKeys(memory_cache'.cache)
              /\ memory_cache'.last_access[k] >= hit_at'[k]
              /\ \A j \in CacheKeys(memory_cache'.cache) \ {k} :
                    memory_cache'.last_access[j] < hit_at'[k]
                    => IndexOf(memory_cache'.cache, j) < IndexOf(memory_cache'.cache, k)
        /\ GetStep /\ ret' # PyNone
           => /\ memory_cache'.cache[Len(memory_cache'.cache)].path = call'.path
              /\ memory_cache'.cache[Len(memory_cache'.cache)].last_accessed = now
              /\ memory_cache'.last_access[call'.path] = now
      ]_vars

\* C4 witness: a key stored long ago was hit by get less than 300 s ago, and
\* a later non-forced put into the full cache has just been refused.
C4_Witness ==
    /\ call.op = "put" /\ ~call.force /\ ~Oversized(call.data) /\ ret = PyBool(FALSE)
    /\ \E k \in DOMAIN hit_at :
          /\ now - hit_at[k] < protection_window
          /\ now > hit_at[k]
          /\ CacheEntry(memory_cache.cache, k).timestamp < hit_at[k]

\* C5: a put whose estimated size exceeds the limit returns False, with or
\* without force, adds one to size_rejections, evicts nothing and leaves
\* every entry and access time as it was; no cached entry is ever oversized.
C5_OversizedPutRejected ==
    [][ /\ ( PutStep /\ Oversized(call'.data) )
           => /\ ret' = PyBool(FALSE)
              /\ memory_cache'.size_rejections = memory_cache.size_rejections + 1
              /\ memory_cache'.evictions = memory_cache.evictions
              /\ memory_cache'.cache = memory_cache.cache
              /\ memory_cache'.last_access = memory_cache.last_access
        /\ \A i \in 1..Len(memory_cache'.cache) :
              ~Oversized(memory_cache'.cache[i].messages.of)
      ]_vars

\* C5 witness: a forced oversized put has just been refused by a full cache.
C5_Witness ==
    /\ call.op = "put" /\ call.force /\ Oversized(call.data) /\ ret = PyBool(FALSE)
    /\ call.full /\ memory_cache.size_rejections = 1
    /\ Len(memory_cache.cache) = memory_cache.max_projects

\* C6: no put issued by the cache warmer or by the uncached-project backfill
\* removes an entry whose last access lies within the protection window.
C6_BackgroundPutsSpareProtected ==
    [][ ( /\ PutStep
          /\ call'.by \in {"warm_recent_projects", "process_uncached_projects"}
          /\ call'.evicted # None )
        => now - memory_cache.last_access[call'.evicted] >= protection_window
      ]_vars

(***************************************************************************)
(* Claims about the disk cache and its callers, checked under SpecDisk.    *)
(***************************************************************************)
\* What the manifest is meant to record of a source file: its size and the
\* whole second of its modification time.
SourceFingerprintPairs(src) ==
    [f \in DOMAIN src |-> <<src[f].size, src[f].mtime \div SubSecond>>]
SourceFingerprint(src) ==
    [f \in DOMAIN src |-> [size |-> src[f].size, second |-> src[f].mtime \div SubSecond]]
BothMiss ==
    /\ get_cached_stats(disk, sources) = PyNone
    /\ get_cached_messages(disk, sources) = PyNone
DiskHolds ==
    /\ ~has_changes(disk, sources)
    /\ disk.stats.state = "ok"
    /\ disk.messages.state = "ok"
Saving == writer.pc \in {"open", "dump", "checksums", "meta_open", "meta_dump"}

\* C7: while the manifest a save wrote is on disk, has_changes returns false
\* as long as every *.jsonl source has the size and whole-second mtime it
\* had at that save, and returns true, with get_cached_stats and
\* get_cached_messages both missing, once a file was added, removed, resized
\* or re-timestamped to another whole second.
C7_ChangeOfSizeOrSecondDetected ==
    disk.metadata.state = "ok" =>
        /\ (sources = saved_src => ~has_changes(disk, sources))
        /\ has_changes(disk, sources)
              <=> (SourceFingerprint(sources) # SourceFingerprint(saved_src))
        /\ (SourceFingerprint(sources) # SourceFingerprint(saved_src)) => BothMiss

\* C7 witness: a reconciliation was saved whole, then a source was touched,
\* and has_changes reports it while both artifacts are still on disk.
C7_Witness ==
    /\ writer.pc = "idle"
    /\ writer.outcome = "reconciled"
    /\ DOMAIN sources = DOMAIN saved_src
    /\ DOMAIN sources # {}
    /\ disk.metadata.state = "ok"
    /\ disk.stats.state = "ok"
    /\ disk.messages.state = "ok"
    /\ SourceFingerprint(sources) # SourceFingerprint(saved_src)
    /\ has_changes(disk, sources)
    /\ BothMiss

\* C7 as stated: with the sources as a save left them and has_changes false,
\* any addition, removal, resize or re-timestamp of a source makes
\* has_changes true and both gets miss.
C7_AnyTouchDetected ==
    [][ ( /\ disk.metadata.state = "ok"
          /\ sources = saved_src
          /\ ~has_changes(disk, sources)
          /\ sources' # sources
          /\ disk' = disk )
        => /\ has_changes(disk', sources')
           /\ get_cached_stats(disk', sources') = PyNone
           /\ get_cached_messages(disk', sources') = PyNone
      ]_vars

\* C8: while a writer is inside save_cached_stats; save_cached_messages, a
\* reader that finds has_changes false finds stats.json and messages.json
\* both holding the reconciliation being saved.
C8_ManifestNeverAheadOfArtifacts ==
    (Saving /\ ~has_changes(disk, sources)) =>
        /\ disk.stats = JsonFile(writer.stats)
        /\ disk.messages = JsonFile(writer.messages)

\* C9: once process_uncached_projects is done with a project, whether it
\* completed, failed or was cancelled, the project's disk cache is either not
\* cached (has_changes is true) or holds the statistics and the messages of
\* one reconciliation.
C9_BackfillAllOrNothing ==
    (writer.kind = "process_uncached_projects" /\ writer.pc = "idle") =>
        \/ has_changes(disk, sources)
        \/ /\ disk.stats.state = "ok"
           /\ disk.messages.state = "ok"
           /\ disk.stats.value.of = disk.messages.value.of

\* C10: load_dashboard_data returns the memory entry when there is one, and
\* calls process_logs exactly when the memory cache misses and the disk cache
\* does not hold statistics and messages (an empty list included) under an
\* unchanged fingerprint.
C10_ReconcileOnlyWhenBothMiss ==
    [][ ( /\ writer.pc = "idle"
          /\ steps' = steps + 1
          /\ writer'.kind = "load_dashboard_data" )
        => /\ (writer'.outcome = "memory") <=> (ProjectPath \in CacheKeys(memory_cache.cache))
           /\ (writer'.pc = "process_logs")
                 <=> (ProjectPath \notin CacheKeys(memory_cache.cache) /\ ~DiskHolds)
      ]_vars

(***************************************************************************)
(* GlobalStatsAggregator.  A date is a day number; a key of daily_stats is *)
(* a string that is an ISO date ("date"), another string fromisoformat     *)
(* accepts, such as a date with a time ("datetime"), or a string it        *)
(* rejects ("bad").  Costs are whole numbers of the smallest unit.         *)
(***************************************************************************)
\* Mutant of window_back: a window one day short.
ShorterWindow == 29 - 1
window_back == 29
isoformat(day) == [kind |-> "date", day |-> day]
fromisoformat(date_str) ==
    IF date_str.kind = "bad" THEN PyRaise("ValueError") ELSE [type |-> "date", day |-> date_str.day]

RECURSIVE SumFn(_)
SumFn(f) ==
    IF DOMAIN f = {} THEN 0
    ELSE LET k == CHOOSE x \in DOMAIN f : TRUE
         IN f[k] + SumFn([x \in DOMAIN f \ {k} |-> f[x]])

\* Mutant of _get_project_stats: the memory cache is asked whatever in_cache says.
GetProjectStatsIgnoringFlag(mc, fc, project, t) ==
    LET g == Get(mc, project.log_path, t)
        stats == get_cached_stats(fc[project.log_path].disk, fc[project.log_path].src)
    IN IF g.ret # PyNone THEN [mc |-> g.mc, stats |-> g.ret.stats, tier |-> "memory"]
       ELSE IF Truthy(stats) THEN [mc |-> g.mc, stats |-> stats, tier |-> "disk"]
       ELSE [mc |-> g.mc, stats |-> PyNone, tier |-> "none"]

\* _get_project_stats: the memory entry of a project flagged in_cache, else
\* the disk statistics, else None.  Returns the memory cache as get left it.
_get_project_stats(mc, fc, project, t) ==
    LET g == IF project.in_cache THEN Get(mc, project.log_path, t) ELSE [mc |-> mc, ret |-> PyNone]
        stats == get_cached_stats(fc[project.log_path].disk, fc[project.log_path].src)
    IN IF g.ret # PyNone THEN [mc |-> g.mc, stats |-> g.ret.stats, tier |-> "memory"]
       ELSE IF Truthy(stats) THEN [mc |-> g.mc, stats |-> stats, tier |-> "disk"]
       ELSE [mc |-> g.mc, stats |-> PyNone, tier |-> "none"]

ZeroTotals == [input |-> 0, output |-> 0, cache_read |-> 0, cache_write |-> 0,
               commands |-> 0, cost |-> 0]
ZeroDay == [input |-> 0, output |-> 0, cost |-> 0, input_cost |-> 0, output_cost |-> 0,
            cache_cost |-> 0]

\* Lines 80-95: the all-time totals take one project's overview.
AddTotals(tot, stats) ==
    [input |-> tot.input + stats.overview.total_tokens.input,
     output |-> tot.output + stats.overview.total_tokens.output,
     cache_read |-> tot.cache_read + stats.overview.total_tokens.cache_read,
     cache_write |-> tot.cache_write + stats.overview.total_tokens.cache_creation,
     commands |-> tot.commands + stats.user_interactions.user_commands_analyzed,
     cost |-> tot.cost + stats.overview.total_cost]

\* Lines 105-133: one key of daily_stats.
AddDay(daily, date_str, day_data, start_date, end_date) ==
    LET date_obj == fromisoformat(date_str)
    IN IF date_obj.type = "exception" THEN daily
       ELSE IF ~(start_date <= date_obj.day /\ date_obj.day <= end_date) THEN daily
       ELSE IF date_str \notin DOMAIN daily THEN daily
       ELSE LET by_model == day_data.cost.by_model
                d == daily[date_str]
            IN [daily EXCEPT ![date_str] =
                   [input |-> d.input + day_data.tokens.input,
                    output |-> d.output + day_data.tokens.output,
                    cost |-> d.cost + day_data.cost.total,
                    input_cost |-> d.input_cost + SumFn([m \in DOMAIN by_model |-> by_model[m].input_cost]),
                    output_cost |-> d.output_cost + SumFn([m \in DOMAIN by_model |-> by_model[m].output_cost]),
                    cache_cost |-> d.cache_cost
                        + SumFn([m \in DOMAIN by_model |->
                                   by_model[m].cache_creation_cost + by_model[m].cache_read_cost])]]

RECURSIVE AddDays(_,_,_,_,_)
AddDays(daily, daily_stats, keys, start_date, end_date) ==
    IF keys = {} THEN daily
    ELSE LET k == CHOOSE x \in keys : TRUE
         IN AddDays(AddDay(daily, k, daily_stats[k], start_date, end_date),
                    daily_stats, keys \ {k}, start_date, end_date)

\* Lines 98-135: daily_stats absent, not a dict, or a dict.
AddDailyStats(daily, stats, start_date, end_date) ==
    IF stats.daily_stats.kind # "dict" THEN daily
    ELSE AddDays(daily, stats.daily_stats.value, DOMAIN stats.daily_stats.value,
                 start_date, end_date)

\* Lines 138-158: earliest first_message_date, latest last_message_date.
Earlier(a, b) == IF b = PyNone THEN a ELSE IF a = PyNone \/ b.t < a.t THEN b ELSE a
Later(a, b) == IF b = PyNone THEN a ELSE IF a = PyNone \/ b.t > a.t THEN b ELSE a

\* Lines 75-160: the loop over the projects, from project i on.
RECURSIVE Aggregate(_,_,_,_,_,_)
Aggregate(projects, i, acc, fc, t, today) ==
    IF i > Len(projects) THEN acc
    ELSE LET r == _get_project_stats(acc.mc, fc, projects[i], t)
         IN IF Truthy(r.stats)
            THEN Aggregate(projects, i + 1,
                   [mc |-> r.mc,
                    totals |-> AddTotals(acc.totals, r.stats),
                    daily |-> AddDailyStats(acc.daily, r.stats, today - window_back, today),
                    earliest |-> Earlier(acc.earliest, r.stats.first_message_date),
                    latest |-> Later(acc.latest, r.stats.last_message_date),
                    used |-> Append(acc.used, r.tier)],
                   fc, t, today)
            ELSE Aggregate(projects, i + 1,
                   [acc EXCEPT !.mc = r.mc, !.used = Append(acc.used, "none")], fc, t, today)

\* get_global_stats: the summary it returns and the memory cache it leaves.
get_global_stats(mc, fc, projects, t, today) ==
    LET start_date == today - window_back
        acc == Aggregate(projects, 1,
                 [mc |-> mc, totals |-> ZeroTotals,
                  daily |-> [k \in {isoformat(d) : d \in start_date..today} |-> ZeroDay],
                  earliest |-> PyNone, latest |-> PyNone, used |-> <<>>],
                 fc, t, today)
        entry(n) == acc.daily[isoformat(start_date + n - 1)]
    IN [mc |-> acc.mc,
        used |-> acc.used,
        ret |-> [total_projects |-> Len(projects),
                 first_use_date |-> acc.earliest,
                 last_use_date |-> acc.latest,
                 total_input_tokens |-> acc.totals.input,
                 total_output_tokens |-> acc.totals.output,
                 total_cache_read_tokens |-> acc.totals.cache_read,
                 total_cache_write_tokens |-> acc.totals.cache_write,
                 total_commands |-> acc.totals.commands,
                 total_cost |-> acc.totals.cost,
                 daily_token_usage |->
                     [n \in 1..(today - start_date + 1) |->
                        [date |-> isoformat(start_date + n - 1),
                         input |-> entry(n).input, output |-> entry(n).output]],
                 daily_costs |->
                     [n \in 1..(today - start_date + 1) |->
                        [date |-> isoformat(start_date + n - 1),
                         cost |-> entry(n).cost, input_cost |-> entry(n).input_cost,
                         output_cost |-> entry(n).output_cost,
                         cache_cost |-> entry(n).cache_cost]]]]

\* process_uncached_projects, from project i of the filtered and sliced
\* list on.  fails[i] names the step of project i that raises, if any; the
\* exception is logged and the loop goes on.  The value of put is not read.
RECURSIVE Backfill(_,_,_,_,_,_)
Backfill(todo, i, acc, fails, t, limit) ==
    IF i > Len(todo) THEN acc
    ELSE LET log_path == todo[i].log_path
             src == acc.fc[log_path].src
             r == process_logs(src)
             after_stats == [acc.fc[log_path].disk EXCEPT
                                !.stats = JsonFile(r.stats),
                                !.metadata = JsonFile([file_checksums |-> _calculate_checksums(src)])]
             after_messages == [after_stats EXCEPT !.messages = JsonFile(r.messages)]
             p == Put(acc.mc, log_path, r.messages, r.stats, FALSE, t)
         IN IF fails[i] = "process_logs"
            THEN Backfill(todo, i + 1,
                   [acc EXCEPT !.outcomes = Append(acc.outcomes,
                        [log_path |-> log_path, counted |-> FALSE, stored |-> FALSE])],
                   fails, t, limit)
            ELSE IF fails[i] = "save_cached_messages"
            THEN Backfill(todo, i + 1,
                   [acc EXCEPT !.fc[log_path].disk = after_stats,
                               !.outcomes = Append(acc.outcomes,
                        [log_path |-> log_path, counted |-> FALSE, stored |-> FALSE])],
                   fails, t, limit)
            ELSE Backfill(todo, i + 1,
                   [acc EXCEPT !.fc[log_path].disk = after_messages,
                               !.mc = p.mc,
                               !.processed = acc.processed + 1,
                               !.outcomes = Append(acc.outcomes,
                        [log_path |-> log_path, counted |-> TRUE, stored |-> p.ret = PyBool(TRUE)])],
                   fails, t, limit)

\* Mutant of Slice: one project more than limit.
SliceOneMore(seq, limit) == SubSeq(seq, 1, IF limit + 1 < Len(seq) THEN limit + 1 ELSE Len(seq))

\* uncached_projects[:limit] for limit >= 0.
Uncached(projects) == SelectSeq(projects, LAMBDA p : ~p.in_cache /\ ~p.stats)
Slice(seq, limit) == SubSeq(seq, 1, IF limit < Len(seq) THEN limit ELSE Len(seq))

process_uncached_projects(mc, fc, projects, limit, fails, t) ==
    LET todo == Slice(Uncached(projects), limit)
        acc == Backfill(todo, 1, [mc |-> mc, fc |-> fc, processed |-> 0, outcomes |-> <<>>],
                        fails, t, limit)
    IN [mc |-> acc.mc, fc |-> acc.fc, ret |-> acc.processed, outcomes |-> acc.outcomes]

(***************************************************************************)
(* The aggregator over two projects whose caches were filled by earlier    *)
(* requests.  A handler runs here from its call to its return, and a       *)
(* behaviour ends with the one aggregator call it makes.  Before it, each  *)
(* project was put into the memory cache at most once and saved to disk    *)
(* at most once.                                                           *)
(***************************************************************************)
GPaths == {PathList[1], PathList[2]}
Todays == {window_back + 1, window_back + 2}
Limits == 0..2
FailureSteps == {"none", "process_logs", "save_cached_messages"}

Bucket(n) ==
    [tokens |-> [input |-> n, output |-> 2 * n],
     cost |-> [total |-> 3 * n,
               by_model |-> [m \in {"opus", "sonnet"} |->
                               [input_cost |-> n, output_cost |-> n,
                                cache_creation_cost |-> n, cache_read_cost |-> 0]]]]
DateTime(t) == [type |-> "datetime", t |-> t]
\* Statistics found in a cache: written by an earlier reconciliation, by an
\* earlier version, or damaged.
MemoryDocs ==
    { StatisticsDocument("a.jsonl" :> 3, 1,
          [kind |-> "dict",
           value |-> (isoformat(1) :> Bucket(1)) @@ (isoformat(window_back + 1) :> Bucket(10))
                       @@ ([kind |-> "bad", day |-> 0] :> Bucket(100))],
          DateTime(1), DateTime(window_back + 1)),
      StatisticsDocument("a.jsonl" :> 5, 100, [kind |-> "missing", value |-> <<>>], PyNone, PyNone) }
DiskDocs ==
    { StatisticsDocument("a.jsonl" :> 4, 10,
          [kind |-> "dict",
           value |-> (isoformat(window_back + 1) :> Bucket(1000)) @@ (isoformat(window_back + 2) :> Bucket(10000))
                       @@ (isoformat(0) :> Bucket(100000))
                       @@ ([kind |-> "datetime", day |-> window_back + 1] :> Bucket(1000000))],
          DateTime(0), DateTime(window_back + 2)),
      StatisticsDocument("a.jsonl" :> 6, 1000, [kind |-> "list", value |-> <<>>], DateTime(2), PyNone) }
CachedMessages == [of |-> "a.jsonl" :> 3, len |-> 1, json |-> 102, serializable |-> TRUE]

RECURSIVE SeqsOf(_,_)
SeqsOf(S, n) ==
    IF n = 0 THEN {<<>>}
    ELSE LET shorter == SeqsOf(S, n - 1)
         IN shorter \cup {Append(q, x) : q \in {r \in shorter : Len(r) = n - 1}, x \in S}
\* The projects argument: dictionaries with log_path, in_cache and stats
\* (here whether stats is set), no log_path twice.
ProjectDicts == {d \in [log_path : GPaths, in_cache : BOOLEAN, stats : BOOLEAN] :
                    ~(d.in_cache /\ d.stats)}
ProjectLists ==
    {q \in SeqsOf(ProjectDicts, Cardinality(GPaths)) :
        \A i, j \in DOMAIN q : i # j => q[i].log_path # q[j].log_path}

\* get_global_stats does not read the stats key.
UnannotatedLists == {q \in ProjectLists : \A i \in DOMAIN q : ~q[i].stats}

GlobalInit ==
    /\ memory_cache \in {NewMemoryCache(n) : n \in 1..Cardinality(GPaths)}
    /\ now = 0
    /\ steps = 0
    /\ call = NoCall
    /\ ret = PyNone
    /\ hit_at = <<>>
    /\ introduced = 0
    /\ sources = <<>>
    /\ disk = EmptyCacheDir
    /\ writer = IdleWriter
    /\ saved_src = <<>>
    /\ file_cache = [p \in GPaths |->
                       [disk |-> EmptyCacheDir, src |-> "a.jsonl" :> [size |-> 1, mtime |-> 0]]]
    /\ request = NoRequest
    /\ summary = PyNone
    /\ logs = <<>>
    /\ sidecar = PyNone
    /\ processor = PyNone
    /\ returned = PyNone
    /\ previous = PyNone

globalfixed == <<call, ret, introduced, hit_at, sources, disk, writer, saved_src, procvars>>

\* An earlier request left statistics in the memory cache ...
Called == request.op \in {"get_global_stats", "process_uncached_projects"}

EarlierPut ==
    /\ ~Called
    /\ \E p \in GPaths \ DOMAIN memory_cache.last_access, d \in MemoryDocs :
          /\ Put(memory_cache, p, CachedMessages, d, FALSE, now).ret = PyBool(TRUE)
          /\ memory_cache' = Put(memory_cache, p, CachedMessages, d, FALSE, now).mc
    /\ UNCHANGED <<now, steps, file_cache, request, summary>>
    /\ UNCHANGED globalfixed
\* ... or on disk, under a manifest of the logs as they were.
EarlierSave ==
    /\ ~Called
    /\ \E p \in GPaths, d \in DiskDocs :
          /\ file_cache[p].disk = EmptyCacheDir
          /\ file_cache' = [file_cache EXCEPT ![p].disk =
                            [stats |-> JsonFile(d), messages |-> JsonFile(CachedMessages),
                             metadata |-> JsonFile([file_checksums |->
                                             _calculate_checksums(file_cache[p].src)])]]
    /\ UNCHANGED <<now, steps, memory_cache, request, summary>>
    /\ UNCHANGED globalfixed
\* The coding agent appends to the log of a project that was saved.
AppendToLog ==
    /\ ~Called
    /\ \E p \in GPaths :
          /\ file_cache[p].disk # EmptyCacheDir
          /\ file_cache[p].src["a.jsonl"].size = 1
          /\ file_cache' = [file_cache EXCEPT ![p].src["a.jsonl"] = [size |-> 2, mtime |-> SubSecond]]
    /\ UNCHANGED <<now, steps, memory_cache, request, summary>>
    /\ UNCHANGED globalfixed
\* The protection window of every entry stored so far runs out.
WindowPasses ==
    /\ ~Called
    /\ now = 0
    /\ now' = protection_window
    /\ UNCHANGED <<steps, memory_cache, file_cache, request, summary>>
    /\ UNCHANGED globalfixed

GetGlobalStats ==
    /\ ~Called
    /\ \E projects \in UnannotatedLists, today \in Todays :
          LET r == get_global_stats(memory_cache, file_cache, projects, now, today)
          IN /\ memory_cache' = r.mc
             /\ summary' = r.ret
             /\ request' = [op |-> "get_global_stats", projects |-> projects, today |-> today,
                            used |-> r.used]
    /\ UNCHANGED <<now, steps, file_cache>>
    /\ UNCHANGED globalfixed

ProcessUncachedProjects ==
    /\ ~Called
    /\ \E projects \in ProjectLists, limit \in Limits :
       \E fails \in [1..Len(Slice(Uncached(projects), limit)) -> FailureSteps] :
          LET r == process_uncached_projects(memory_cache, file_cache, projects, limit, fails, now)
          IN /\ memory_cache' = r.mc
             /\ file_cache' = r.fc
             /\ summary' = r.ret
             /\ request' = [op |-> "process_uncached_projects", projects |-> projects,
                            limit |-> limit, fails |-> fails, outcomes |-> r.outcomes]
    /\ UNCHANGED <<now, steps>>
    /\ UNCHANGED globalfixed

GlobalNext ==
    \/ EarlierPut \/ EarlierSave \/ AppendToLog \/ WindowPasses
    \/ GetGlobalStats \/ ProcessUncachedProjects

SpecGlobal == GlobalInit /\ [][GlobalNext]_vars

(***************************************************************************)
(* Claims about the aggregator, checked under SpecGlobal.  In a step that  *)
(* is a call, the unprimed variables are the caches the call met.          *)
(***************************************************************************)
GlobalCall == ~Called /\ request'.op = "get_global_stats"
BackfillCall == ~Called /\ request'.op = "process_uncached_projects"
\* The statistics a project has for the aggregator, and from which tier.
DiskStatsValid(p) ==
    /\ file_cache[p].disk.metadata.state = "ok"
    /\ file_cache[p].disk.metadata.value.file_checksums = SourceFingerprintPairs(file_cache[p].src)
    /\ file_cache[p].disk.stats.state = "ok"
TierOf(pr) ==
    IF pr.in_cache /\ pr.log_path \in Keys THEN "memory"
    ELSE IF DiskStatsValid(pr.log_path) THEN "disk"
    ELSE "none"
StatsOf(pr) ==
    IF TierOf(pr) = "memory" THEN CacheEntry(memory_cache.cache, pr.log_path).stats
    ELSE file_cache[pr.log_path].disk.stats.value
Available(projects) == {i \in DOMAIN projects : TierOf(projects[i]) # "none"}
\* What the memory cache holds, whatever its order, clocks and counters.
Held(mc) == {[path |-> mc.cache[i].path, messages |-> mc.cache[i].messages,
              stats |-> mc.cache[i].stats] : i \in DOMAIN mc.cache}

HasBucket(pr, day) ==
    /\ StatsOf(pr).daily_stats.kind = "dict"
    /\ [kind |-> "date", day |-> day] \in DOMAIN StatsOf(pr).daily_stats.value
BucketOf(pr, day) == StatsOf(pr).daily_stats.value[[kind |-> "date", day |-> day]]
ModelSum(bucket, field) ==
    SumFn([m \in DOMAIN bucket.cost.by_model |-> bucket.cost.by_model[m][field]])

\* C12: daily_token_usage and daily_costs have 30 entries, for the 30
\* consecutive dates that end today, in ascending order; an entry is the sum
\* of that date's bucket over the projects that had statistics with a
\* daily_stats mapping holding the date; buckets outside the window and
\* projects without a daily_stats mapping add to no entry and still add to
\* the all-time totals.
C12_ThirtyDayWindow ==
    [][ GlobalCall =>
        LET projects == request'.projects
            today == request'.today
            A == Available(projects)
            With(day) == {i \in A : HasBucket(projects[i], day)}
        IN /\ Len(summary'.daily_token_usage) = 30
           /\ Len(summary'.daily_costs) = 30
           /\ \A n \in 1..30 :
                LET day == today - 30 + n
                    tokens == summary'.daily_token_usage[n]
                    costs == summary'.daily_costs[n]
                IN /\ tokens.date = [kind |-> "date", day |-> day]
                   /\ costs.date = [kind |-> "date", day |-> day]
                   /\ tokens.input = SumFn([i \in With(day) |-> BucketOf(projects[i], day).tokens.input])
                   /\ tokens.output = SumFn([i \in With(day) |-> BucketOf(projects[i], day).tokens.output])
                   /\ costs.cost = SumFn([i \in With(day) |-> BucketOf(projects[i], day).cost.total])
                   /\ costs.input_cost
                        = SumFn([i \in With(day) |-> ModelSum(BucketOf(projects[i], day), "input_cost")])
                   /\ costs.output_cost
                        = SumFn([i \in With(day) |-> ModelSum(BucketOf(projects[i], day), "output_cost")])
                   /\ costs.cache_cost
                        = SumFn([i \in With(day) |->
                                   ModelSum(BucketOf(projects[i], day), "cache_creation_cost")
                                     + ModelSum(BucketOf(projects[i], day), "cache_read_cost")])
           /\ summary'.total_input_tokens
                = SumFn([i \in A |-> StatsOf(projects[i]).overview.total_tokens.input])
           /\ summary'.total_cost
                = SumFn([i \in A |-> StatsOf(projects[i]).overview.total_cost])
      ]_vars

\* C12 witness: two projects had a bucket for the same date inside the
\* window, one of them also a bucket before the window and a key that is no
\* date, the other a key with a time of day; the entry of the shared date is
\* the sum of the two buckets and the totals are those of both projects.
C12_Witness ==
    /\ request.op = "get_global_stats"
    /\ request.today = window_back + 2
    /\ Len(request.projects) = 2
    /\ Len(summary.daily_token_usage) = 30
    /\ summary.daily_token_usage[29].input = 1010
    /\ summary.daily_token_usage[30].input = 10000
    /\ summary.daily_token_usage[1].input = 0
    /\ summary.daily_costs[29].cost = 3030
    /\ summary.total_input_tokens = 11

\* With no project at all the two lists still have their 30 entries.
C12_EmptyListWitness ==
    /\ request.op = "get_global_stats"
    /\ request.projects = <<>>
    /\ Len(summary.daily_token_usage) = 30

\* The projects a backfill call works on, and those it counts.
Eligible(projects) == SelectSeq(projects, LAMBDA p : ~p.in_cache /\ ~p.stats)
Worked == request'.outcomes
Counted == {k \in 1..Len(Worked) : request'.fails[k] = "none"}
\* Both disk artifacts of a project are those of a reconciliation of its
\* logs as they are now, under a manifest that matches the logs.
OnDiskAfter(p) ==
    LET d == file_cache'[p].disk
        r == process_logs(file_cache'[p].src)
    IN /\ d.stats = JsonFile(r.stats)
       /\ d.messages = JsonFile(r.messages)
       /\ ~has_changes(d, file_cache'[p].src)
InMemoryAfter(p) ==
    /\ p \in CacheKeys(memory_cache'.cache)
    /\ CacheEntry(memory_cache'.cache, p).stats = process_logs(file_cache'[p].src).stats
    /\ CacheEntry(memory_cache'.cache, p).messages = process_logs(file_cache'[p].src).messages
\* The memory cache after the call is full of entries inside the protection
\* window: a put without force of a key it does not hold is refused.
FullOfProtectedAfter ==
    /\ Len(memory_cache'.cache) >= memory_cache'.max_projects
    /\ \A q \in CacheKeys(memory_cache'.cache) :
          now' - memory_cache'.last_access[q] < protection_window
BackfillSelection ==
    LET projects == request'.projects
        limit == request'.limit
        eligible == Eligible(projects)
        n == IF limit < Len(eligible) THEN limit ELSE Len(eligible)
    IN /\ Len(Worked) = n
       /\ Len(Worked) <= limit
       /\ \A k \in 1..n : Worked[k].log_path = eligible[k].log_path
       \* a project that was not worked on keeps its disk cache
       /\ \A p \in GPaths :
            (\A k \in 1..n : eligible[k].log_path # p) => file_cache'[p] = file_cache[p]
       /\ summary' = Cardinality(Counted)
       /\ \A k \in Counted : OnDiskAfter(Worked[k].log_path)

C13_LimitWitness ==
    /\ request.op = "process_uncached_projects"
    /\ Len(Eligible(request.projects)) = 2
    /\ request.limit = 1
    /\ summary = 1
    /\ request.outcomes[1].log_path \in CacheKeys(memory_cache.cache)

(***************************************************************************)
(* ClaudeLogProcessor (sniffly/core/processor.py).                         *)
(*                                                                         *)
(* A log line is what orjson.loads makes of it: a dict (an entry), a JSON  *)
(* value that is no dict, or an error.  A timestamp is a string of one     *)
(* fixed format, so that Python's string order is the order of time: it    *)
(* is a number here, and 0 is the empty string of an entry without one.    *)
(* A text is a sequence of fragments, the pieces that "\n".join glues; no  *)
(* fragment holds a newline and none reaches the 200 characters at which   *)
(* the keys of the deduplication cut.  Every tool_use is of the Read tool  *)
(* without input, and every assistant entry names the one model.           *)
(***************************************************************************)
TextItem(s) == [type |-> "text", text |-> s, id |-> ""]
ToolUseItem(id) == [type |-> "tool_use", text |-> "", id |-> id]
ToolResultItem(s) == [type |-> "tool_result", text |-> s, id |-> ""]

Usage(n) ==
    [input_tokens |-> n, output_tokens |-> 2 * n,
     cache_creation_input_tokens |-> 3 * n, cache_read_input_tokens |-> 4 * n]

\* One entry of a log: the keys process_logs reads.  id = "" and model = ""
\* stand for a message without the key, n = 0 for one without usage.
LogEntry(type, timestamp, content, uuid, id, n) ==
    [json |-> "object", type |-> type, timestamp |-> timestamp, uuid |-> uuid,
     isSidechain |-> FALSE, isCompactSummary |-> FALSE, summary |-> "",
     message |-> [id |-> id, model |-> IF type = "assistant" THEN "opus" ELSE "",
                  content |-> content, usage |-> Usage(n)]]
SummaryEntry(text) ==
    [json |-> "object", type |-> "summary", timestamp |-> 0, uuid |-> "",
     isSidechain |-> FALSE, isCompactSummary |-> FALSE, summary |-> text,
     message |-> PyNone]
\* A line that is no JSON, and a line that is JSON but no dict.
GarbageLine == [json |-> "garbage"]
NonObjectLine == [json |-> "nonobject"]

\* A fragment of a text: s names it, kind tells what it starts with ("used"
\* for "Used ", "tool_result" for "[Tool Result:" or "[Tool Error:").
Fragment(s, kind) == [s |-> s, of |-> 0, kind |-> kind]
KindOfText(s) == IF s = "Used grep to find it" THEN "used" ELSE "text"
ZeroTokens == [input |-> 0, output |-> 0, cache_creation |-> 0, cache_read |-> 0]

\* lines 527-559: one "Used Read on unknown" per tool, joined by " | "
_generate_tool_summary(tools) == <<[s |-> "Used Read on unknown", of |-> Len(tools), kind |-> "used"]>>

MapSeq(seq, Op(_)) == [i \in 1..Len(seq) |-> Op(seq[i])]

\* lines 480-525
PartOf(item) ==
    IF item.type = "text" THEN Fragment(item.text, KindOfText(item.text))
    ELSE Fragment(item.text, "tool_result")
ContentAndTools(content_parts, tools) ==
    [content |-> IF content_parts = <<>> /\ tools # <<>>
                 THEN _generate_tool_summary(tools) ELSE content_parts,
     tools |-> tools]
_extract_content(data) ==
    ContentAndTools(
        MapSeq(SelectSeq(data.message.content, LAMBDA item : item.type \in {"text", "tool_result"}),
               PartOf),
        MapSeq(SelectSeq(data.message.content, LAMBDA item : item.type = "tool_use"),
               LAMBDA item : item.id))
\* lines 561-569
_extract_tokens(data) ==
    LET usage == data.message.usage
    IN [input |-> usage.input_tokens, output |-> usage.output_tokens,
        cache_creation |-> usage.cache_creation_input_tokens,
        cache_read |-> usage.cache_read_input_tokens]

\* The keys a Message may lack are here with a value that says so: -1 for
\* start_timestamp and the interaction_ counts, "" for message_id and
\* interaction_model, PyNone for _raw_data.
NotDerived == [interaction_tool_count |-> -1, interaction_model |-> "",
               interaction_assistant_steps |-> -1]

\* lines 403-421
_extract_summary(data, session_id) ==
    [session_id |-> session_id, type |-> "summary", timestamp |-> data.timestamp,
     model |-> "N/A", content |-> <<Fragment(data.summary, KindOfText(data.summary))>>,
     tools |-> <<>>, tokens |-> ZeroTokens, uuid |-> data.uuid,
     is_sidechain |-> FALSE, has_tool_result |-> FALSE,
     message_id |-> "", start_timestamp |-> -1, _raw_data |-> PyNone,
     interaction |-> NotDerived]

\* lines 423-478; no entry here has a toolUseResult
MessageOf(data, session_id, c) ==
    [session_id |-> session_id,
     type |-> IF data.isSidechain /\ data.type = "user" THEN "task" ELSE data.type,
     timestamp |-> data.timestamp,
     model |-> IF data.message.model = "" THEN "N/A" ELSE data.message.model,
     content |-> c.content, tools |-> c.tools, tokens |-> _extract_tokens(data),
     uuid |-> data.uuid, is_sidechain |-> data.isSidechain,
     has_tool_result |-> FALSE,
     message_id |-> data.message.id, start_timestamp |-> -1, _raw_data |-> PyNone,
     interaction |-> NotDerived]
_extract_message(data, session_id) ==
    IF data.message = PyNone THEN PyNone
    ELSE MessageOf(data, session_id, _extract_content(data))
\* message["timestamp"][:10]: two instants to a day
DayOf(timestamp) == (timestamp + 1) \div 2

\* defaultdict(int)[k] += n and the like
Bump(d, k, n) == DictSet(d, k, DictGet(d, k, 0) + n)
AddTokens(a, b) ==
    [input |-> a.input + b.input, output |-> a.output + b.output,
     cache_creation |-> a.cache_creation + b.cache_creation,
     cache_read |-> a.cache_read + b.cache_read]

\* lines 258-264
NewRunningStats ==
    [tokens |-> ZeroTokens, message_counts |-> <<>>, tool_usage |-> <<>>,
     daily_tokens |-> <<>>, model_usage |-> <<>>]
\* lines 252-257
NewStatistics ==
    [files_processed |-> 0, messages_extracted |-> 0, errors |-> 0,
     summary |-> [count |-> 0, compact |-> 0]]

\* lines 200-229
CountModel(running_stats, message, usage) ==
    IF message.model # "N/A"
    THEN [running_stats EXCEPT !.model_usage =
            DictSet(@, message.model,
                    [count |-> usage.count + 1,
                     input_tokens |-> usage.input_tokens + message.tokens.input,
                     output_tokens |-> usage.output_tokens + message.tokens.output])]
    ELSE running_stats
_update_running_stats(running_stats, message) ==
    CountModel(
        [running_stats EXCEPT
           !.message_counts = Bump(@, message.type, 1),
           !.tokens = AddTokens(@, message.tokens),
           !.tool_usage = IF message.tools = <<>> THEN @
                          ELSE Bump(@, "Read", Len(message.tools)),
           !.daily_tokens = IF message.timestamp # 0
                            THEN DictSet(@, DayOf(message.timestamp),
                                         AddTokens(DictGet(@, DayOf(message.timestamp), ZeroTokens),
                                                   message.tokens))
                            ELSE @],
        message,
        DictGet(running_stats.model_usage, message.model,
                [count |-> 0, input_tokens |-> 0, output_tokens |-> 0]))
\* lines 356-401: one line of a file.  A line that is no dict raises inside
\* the try; the handler logs it and goes to the next line.
KeepMessage(st, message) ==
    [st EXCEPT !.raw_messages = Append(@, message),
               !.running_stats = _update_running_stats(@, message)]
\* lines 361-372
SummaryLine(st, extracted) ==
    KeepMessage([st EXCEPT !.statistics.summary.count = @ + 1],
                [extracted EXCEPT
                   !.timestamp = IF st.raw_messages # <<>>
                                    /\ st.raw_messages[Len(st.raw_messages)].timestamp # 0
                                 THEN st.raw_messages[Len(st.raw_messages)].timestamp
                                 ELSE @,
                   !.model = st.last_model_seen])
\* lines 375-386
CompactLine(st, data, extracted) ==
    IF extracted = PyNone THEN st
    ELSE KeepMessage(st, [extracted EXCEPT
                            !.type = "compact_summary",
                            !._raw_data = data,
                            !.model = IF st.last_model_seen # "N/A"
                                      THEN st.last_model_seen ELSE @])
\* lines 389-398
MessageLine(st, data, extracted) ==
    IF extracted = PyNone THEN st
    ELSE KeepMessage([st EXCEPT
                        !.last_model_seen = IF extracted.type = "assistant"
                                               /\ extracted.model # "N/A"
                                            THEN extracted.model ELSE @],
                     [extracted EXCEPT !._raw_data = data])
ProcessLine(st, data, session_id) ==
    IF data.json # "object" THEN st
    ELSE IF data.type = "summary"
    THEN SummaryLine(st, _extract_summary(data, session_id))
    ELSE IF data.isCompactSummary
    THEN CompactLine([st EXCEPT !.statistics.summary.compact = @ + 1], data,
                     _extract_message(data, session_id))
    ELSE MessageLine(st, data, _extract_message(data, session_id))
RECURSIVE ProcessLines(_, _, _, _)
ProcessLines(st, lines, i, session_id) ==
    IF i > Len(lines) THEN st
    ELSE ProcessLines(ProcessLine(st, lines[i], session_id), lines, i + 1, session_id)

\* A file that open() refuses: a directory, a dangling link, a file without
\* read permission, a file removed since glob listed it.
Unreadable == [state |-> "unreadable"]
ReadableFile(lines) == [state |-> "ok", lines |-> lines]

\* lines 339-401: what the call leaves in the processor and in raw_messages,
\* or the OSError that open() raises, which nothing catches
FileResult(st) ==
    [type |-> "ok", raw_messages |-> st.raw_messages,
     self |-> [statistics |-> st.statistics, running_stats |-> st.running_stats]]
_process_file(self, file, session_id) ==
    IF file.state # "ok" THEN PyRaise("OSError")
    ELSE FileResult(ProcessLines([raw_messages |-> <<>>, last_model_seen |-> "N/A",
                                  statistics |-> self.statistics,
                                  running_stats |-> self.running_stats],
                                 file.lines, 1, session_id))
\* the elements of a sequence, each once, in the order of first appearance
RECURSIVE Distinct(_)
Distinct(seq) ==
    IF seq = <<>> THEN <<>>
    ELSE LET front == Distinct(SubSeq(seq, 1, Len(seq) - 1))
             x == seq[Len(seq)]
         IN IF \E i \in 1..Len(front) : front[i] = x THEN front ELSE Append(front, x)
RECURSIVE Flatten(_)
Flatten(seqs) == IF seqs = <<>> THEN <<>> ELSE Head(seqs) \o Flatten(Tail(seqs))
SeqMax(seq) == CHOOSE x \in {seq[i] : i \in 1..Len(seq)} : \A i \in 1..Len(seq) : seq[i] <= x
SeqMin(seq) == CHOOSE x \in {seq[i] : i \in 1..Len(seq)} : \A i \in 1..Len(seq) : x <= seq[i]
RECURSIVE SumTokens(_)
SumTokens(msgs) ==
    IF msgs = <<>> THEN ZeroTokens ELSE AddTokens(Head(msgs).tokens, SumTokens(Tail(msgs)))

StartsWithUsed(content) == content # <<>> /\ content[1].kind = "used"
\* mutant of TextParts: every text of the group is kept
TextPartsKeepingUsed(group) ==
    Distinct(MapSeq(SelectSeq(group, LAMBDA msg : msg.content # <<>>), LAMBDA msg : msg.content))
\* lines 640-644
TextParts(group) ==
    Distinct(MapSeq(SelectSeq(group, LAMBDA msg : msg.content # <<>> /\ ~StartsWithUsed(msg.content)),
                    LAMBDA msg : msg.content))

\* lines 681-703: the merged content array of the raw entries
RawContent(group) ==
    Distinct(SelectSeq(Flatten(MapSeq(group, LAMBDA msg : msg._raw_data.message.content)),
                       LAMBDA c : (c.type = "tool_use" /\ c.id # "") \/ c.type = "text"))
\* lines 604-713
MergedGroup(first, group, all_tools, text_parts, timestamps) ==
    [first EXCEPT
       !.tools = all_tools,
       !.content = IF text_parts # <<>> THEN Flatten(text_parts)
                   ELSE IF all_tools # <<>> THEN _generate_tool_summary(all_tools)
                   ELSE <<>>,
       !.timestamp = IF timestamps # <<>> THEN SeqMax(timestamps) ELSE 0,
       !.start_timestamp = IF timestamps # <<>> THEN SeqMin(timestamps) ELSE 0,
       !._raw_data = IF all_tools # <<>>
                     THEN [@ EXCEPT !.message.content = RawContent(group)]
                     ELSE @,
       !.tokens = SumTokens(group)]
_merge_message_group(group) ==
    MergedGroup(group[1], group,
                Distinct(Flatten(MapSeq(group, LAMBDA msg : msg.tools))),
                TextParts(group),
                MapSeq(SelectSeq(group, LAMBDA msg : msg.timestamp # 0),
                       LAMBDA msg : msg.timestamp))
\* lines 848-859: the assistant messages of one message id
MessageGroup(messages, msg_id) ==
    SelectSeq(messages, LAMBDA msg : msg.type = "assistant" /\ msg.message_id = msg_id)

\* lines 861-881
RECURSIVE MergeLoop(_, _, _)
MergeLoop(messages, i, acc) ==
    IF i > Len(messages) THEN acc.merged
    ELSE LET msg == messages[i]
             msg_id == msg.message_id
             grouped == msg_id # "" /\ msg.type = "assistant"
         IN IF grouped /\ Len(MessageGroup(messages, msg_id)) > 1
            THEN IF msg_id \notin acc.processed_ids
                 THEN MergeLoop(messages, i + 1,
                        [merged |-> Append(acc.merged,
                                           _merge_message_group(MessageGroup(messages, msg_id))),
                         processed_ids |-> acc.processed_ids \cup {msg_id}])
                 ELSE MergeLoop(messages, i + 1, acc)
            ELSE IF ~(grouped /\ msg_id \in acc.processed_ids)
                 THEN MergeLoop(messages, i + 1, [acc EXCEPT !.merged = Append(@, msg)])
                 ELSE MergeLoop(messages, i + 1, acc)

\* lines 838-881
_merge_and_deduplicate_streaming(messages) ==
    MergeLoop(messages, 1, [merged |-> <<>>, processed_ids |-> {}])

(***************************************************************************)
(* Interactions.  hashlib.md5 is taken to be injective on the texts of a   *)
(* log.  A processed Message has no "message" key, so that the reads of    *)
(* msg.get("message", {}) in completeness_score, has_complete_response,    *)
(* _reconcile_tool_count and _infer_tool_count_from_content find nothing.  *)
(***************************************************************************)
\* lines 32-52
NewInteraction(user_message) ==
    [user_message |-> user_message, assistant_messages |-> <<>>, tool_results |-> <<>>,
     session_id |-> user_message.session_id,
     interaction_id |-> [start_time |-> user_message.timestamp,
                         content_hash |-> user_message.content],
     model |-> "N/A", tools_used |-> <<>>, final_tool_count |-> 0]

\* mutant of add_assistant_message: a reply of another session than the user
\* message's is not attached
add_assistant_message_of_own_session(self, msg) ==
    LET content_list == msg._raw_data.message.content
        raw_tools == MapSeq(SelectSeq(content_list, LAMBDA c : c.type = "tool_use"),
                            LAMBDA c : c.id)
    IN IF msg.session_id # self.session_id THEN self
       ELSE [self EXCEPT
          !.assistant_messages = Append(@, msg),
          !.model = IF @ = "N/A" /\ msg.model # "N/A" THEN msg.model
                    ELSE IF @ = "N/A" /\ msg._raw_data.message.model # ""
                    THEN msg._raw_data.message.model
                    ELSE @,
          !.tools_used = IF content_list # <<>> THEN @ \o raw_tools ELSE @ \o msg.tools]

\* lines 74-110
add_assistant_message(self, msg) ==
    LET content_list == msg._raw_data.message.content
        raw_tools == MapSeq(SelectSeq(content_list, LAMBDA c : c.type = "tool_use"),
                            LAMBDA c : c.id)
    IN [self EXCEPT
          !.assistant_messages = Append(@, msg),
          !.model = IF @ = "N/A" /\ msg.model # "N/A" THEN msg.model
                    ELSE IF @ = "N/A" /\ msg._raw_data.message.model # ""
                    THEN msg._raw_data.message.model
                    ELSE @,
          !.tools_used = IF content_list # <<>> THEN @ \o raw_tools ELSE @ \o msg.tools]

\* lines 112-116
add_tool_result(self, msg) == [self EXCEPT !.tool_results = Append(@, msg)]

\* lines 118-142: the output tokens are read from msg["message"], which no
\* Message has
completeness_score(self) ==
    (IF self.assistant_messages # <<>> THEN 100 ELSE 0)
      + (IF self.model # "N/A" THEN 50 ELSE 0)
      + Len(self.tools_used) * 10
      + Len(self.tool_results) * 5

\* lines 144-155: the stop reason is read from msg["message"] too, and "" is
\* none of the reasons that end a response
StopReasonRead(msg) == ""
has_complete_response(self) ==
    /\ self.assistant_messages # <<>>
    /\ \E i \in 1..Len(self.assistant_messages) :
          StopReasonRead(self.assistant_messages[i]) \in {"end_turn", "stop_sequence", "tool_use"}

\* lines 157-169
merge_tools_from(self, other) ==
    LET fresh == SelectSeq(Distinct(other.tools_used),
                           LAMBDA id : id # "" /\ \A i \in 1..Len(self.tools_used) :
                                                      self.tools_used[i] # id)
    IN [self EXCEPT !.tools_used = @ \o fresh]

\* lines 973-991
IsToolResult(msg) ==
    /\ msg.type = "user"
    /\ IF msg._raw_data.message.content # <<>>
       THEN \E i \in 1..Len(msg._raw_data.message.content) :
               msg._raw_data.message.content[i].type = "tool_result"
       ELSE \/ msg.has_tool_result
            \/ (msg.content # <<>> /\ msg.content[1].kind = "tool_result")

\* lines 965-1009: current is PyNone until the first user message that is no
\* tool result; what comes before it joins no interaction
RECURSIVE GroupLoop(_, _, _)
GroupLoop(messages, i, acc) ==
    IF i > Len(messages)
    THEN IF acc.current # PyNone THEN Append(acc.interactions, acc.current) ELSE acc.interactions
    ELSE LET msg == messages[i]
         IN IF msg.type = "user" /\ ~IsToolResult(msg)
            THEN GroupLoop(messages, i + 1,
                   [interactions |-> IF acc.current # PyNone
                                     THEN Append(acc.interactions, acc.current)
                                     ELSE acc.interactions,
                    current |-> NewInteraction(msg)])
            ELSE IF acc.current # PyNone /\ msg.type = "assistant"
            THEN GroupLoop(messages, i + 1,
                   [acc EXCEPT !.current = add_assistant_message(@, msg)])
            ELSE IF acc.current # PyNone /\ msg.type = "user" /\ IsToolResult(msg)
            THEN GroupLoop(messages, i + 1, [acc EXCEPT !.current = add_tool_result(@, msg)])
            ELSE GroupLoop(messages, i + 1, acc)

_group_into_interactions(messages) ==
    GroupLoop(messages, 1, [interactions |-> <<>>, current |-> PyNone])

\* lines 1011-1048.  The session after a session is the one whose index is
\* one more.  first_interaction.user_message is the Message the Interaction
\* was made of, and "not first_interaction.user_message" is false of it.
SessionsOf(interactions) == Distinct(MapSeq(interactions, LAMBDA x : x.session_id))
OfSession(interactions, session_id) == SelectSeq(interactions, LAMBDA x : x.session_id = session_id)
Orphaned(first_interaction) ==
    first_interaction.assistant_messages # <<>> /\ first_interaction.user_message = PyNone
RECURSIVE AddAssistantMessages(_, _)
AddAssistantMessages(self, msgs) ==
    IF msgs = <<>> THEN self
    ELSE AddAssistantMessages(add_assistant_message(self, Head(msgs)), Tail(msgs))
RECURSIVE AddToolResults(_, _)
AddToolResults(self, msgs) ==
    IF msgs = <<>> THEN self ELSE AddToolResults(add_tool_result(self, Head(msgs)), Tail(msgs))
LastOf(mine) == mine[Len(mine)]
FirstOfFollowing(by_session, following) ==
    IF following = {} THEN <<>>
    ELSE OfSession(by_session, CHOOSE o \in following : TRUE)
NextInteractions(by_session, session_metadata, session_id) ==
    FirstOfFollowing(by_session,
                     {o \in DOMAIN session_metadata :
                        session_metadata[o].index = session_metadata[session_id].index + 1})
Folded(last_interaction, first_interaction) ==
    AddToolResults(AddAssistantMessages(last_interaction, first_interaction.assistant_messages),
                   first_interaction.tool_results)
Replaced(kept, old, new) == MapSeq(kept, LAMBDA x : IF x = old THEN new ELSE x)
\* lines 1024-1046: one session
FoldSplit(interactions, last_interaction, next_interactions) ==
    IF /\ last_interaction.assistant_messages = <<>>
       /\ next_interactions # <<>>
       /\ Orphaned(next_interactions[1])
    THEN Replaced(SelectSeq(interactions, LAMBDA x : x # next_interactions[1]),
                  last_interaction, Folded(last_interaction, next_interactions[1]))
    ELSE interactions
RECURSIVE SplitLoop(_, _, _, _, _)
SplitLoop(interactions, by_session, sessions, k, session_metadata) ==
    IF k > Len(sessions) THEN interactions
    ELSE SplitLoop(FoldSplit(interactions,
                             LastOf(OfSession(by_session, sessions[k])),
                             NextInteractions(by_session, session_metadata, sessions[k])),
                   by_session, sessions, k + 1, session_metadata)
_handle_split_interactions(interactions, session_metadata) ==
    SplitLoop(interactions, interactions, SessionsOf(interactions), 1, session_metadata)

\* mutant of SortDescending: ascending, equal keys in their old order
RECURSIVE SortAscending(_)
SortAscending(seq) ==
    IF seq = <<>> THEN <<>>
    ELSE LET rest == SortAscending(SubSeq(seq, 1, Len(seq) - 1))
             x == seq[Len(seq)]
             before == SelectSeq(rest, LAMBDA y : y.key <= x.key)
             after == SelectSeq(rest, LAMBDA y : y.key > x.key)
         IN before \o <<x>> \o after
\* list.sort(key=..., reverse=True) of a list of [key, value]: descending,
\* equal keys in their old order
RECURSIVE SortDescending(_)
SortDescending(seq) ==
    IF seq = <<>> THEN <<>>
    ELSE LET rest == SortDescending(SubSeq(seq, 1, Len(seq) - 1))
             x == seq[Len(seq)]
             before == SelectSeq(rest, LAMBDA y : y.key >= x.key)
             after == SelectSeq(rest, LAMBDA y : y.key < x.key)
         IN before \o <<x>> \o after
Values(pairs) == MapSeq(pairs, LAMBDA q : q.value)

\* lines 1063-1082: the best of the duplicates, with what the others add
WithModelOf(tooled, other) ==
    [tooled EXCEPT !.model = IF @ = "N/A" /\ other.model # "N/A" THEN other.model ELSE @]
WithResponseOf(modelled, other) ==
    IF ~has_complete_response(modelled) /\ has_complete_response(other)
    THEN [modelled EXCEPT !.assistant_messages = other.assistant_messages]
    ELSE modelled
RECURSIVE FoldOthers(_, _)
FoldOthers(best, others) ==
    IF others = <<>> THEN best
    ELSE FoldOthers(WithResponseOf(WithModelOf(merge_tools_from(best, Head(others)),
                                               Head(others)),
                                   Head(others)),
                    Tail(others))
\* lines 1050-1084
BestFirst(duplicates) ==
    Values(SortDescending(MapSeq(duplicates,
                                 LAMBDA x : [key |-> completeness_score(x), value |-> x])))
MergeSorted(sorted) ==
    IF Len(sorted) = 1 THEN sorted[1] ELSE FoldOthers(sorted[1], Tail(sorted))
_merge_duplicate_interactions(interactions) ==
    MapSeq(Distinct(MapSeq(interactions, LAMBDA x : x.interaction_id)),
           LAMBDA id : MergeSorted(BestFirst(SelectSeq(interactions,
                                                       LAMBDA x : x.interaction_id = id))))
\* lines 1091-1125: no tool is the Task tool, the tool results and the
\* texts are read from msg["message"], which no Message has
_reconcile_tool_count(interaction) ==
    Cardinality({interaction.tools_used[i] : i \in 1..Len(interaction.tools_used)} \ {""})
\* lines 1086-1089
_reconcile_all_tool_counts(interactions) ==
    MapSeq(interactions, LAMBDA x : [x EXCEPT !.final_tool_count = _reconcile_tool_count(x)])

\* lines 1154-1173
_interactions_to_messages(interactions) ==
    Flatten(MapSeq(interactions, LAMBDA x :
        <<[x.user_message EXCEPT
             !.interaction = [interaction_tool_count |-> x.final_tool_count,
                              interaction_model |-> x.model,
                              interaction_assistant_steps |-> Len(x.assistant_messages)]]>>
          \o x.assistant_messages \o x.tool_results))

\* lines 762-772: the key of a message
DedupKey(msg) ==
    IF msg.type \in {"summary", "compact_summary"}
    THEN [type |-> msg.type, timestamp |-> msg.timestamp, content |-> msg.content, uuid |-> ""]
    ELSE [type |-> msg.type, timestamp |-> msg.timestamp, content |-> msg.content,
          uuid |-> msg.uuid]
\* lines 749-778
RECURSIVE _deduplicate_all_messages(_)
_deduplicate_all_messages(messages) ==
    IF messages = <<>> THEN <<>>
    ELSE LET front == _deduplicate_all_messages(SubSeq(messages, 1, Len(messages) - 1))
             msg == messages[Len(messages)]
         IN IF \E i \in 1..Len(front) : DedupKey(front[i]) = DedupKey(msg)
            THEN front ELSE Append(front, msg)

(***************************************************************************)
(* process_logs.  The directory is the list of its *.jsonl files in the   *)
(* order of their names, which is the order sorted(glob.glob(...)) gives.  *)
(***************************************************************************)
SessionIdOf == [name \in {"a.jsonl", "b.jsonl"} |-> IF name = "a.jsonl" THEN "a" ELSE "b"]

\* line 913: the lines of a file that the detection reads
first_lines == 5

\* lines 954-963 and 937: the text parts, joined by " ", are the word
\* "continue"
SaysContinue(msg) ==
    LET parts == SelectSeq(msg.message.content, LAMBDA part : part.type = "text")
    IN Len(parts) = 1 /\ parts[1].text = "continue"

\* lines 904-943 for the file at position i: "edge" if its session continues
\* the one before, "none" if not, "AttributeError" if, before any line that
\* says so, a line is JSON but no dict (msg.get on it raises).  A line that
\* is no JSON is skipped, a file that cannot be opened too.
Continues(file) ==
    IF file.state # "ok" THEN "none"
    ELSE LET head == SubSeq(file.lines, 1,
                            IF Len(file.lines) < first_lines THEN Len(file.lines) ELSE first_lines)
             first_messages == SelectSeq(head, LAMBDA msg : msg.json # "garbage")
             Decides(msg) ==
                 \/ msg.json = "nonobject"
                 \/ msg.isCompactSummary
                 \/ (msg.type = "user" /\ msg.message # PyNone /\ SaysContinue(msg))
             deciding == SelectSeq(first_messages, Decides)
         IN IF deciding = <<>> THEN "none"
            ELSE IF deciding[1].json = "nonobject" THEN "AttributeError"
            ELSE "edge"

\* lines 883-952.  cache_newer: the sidecar is there and its mtime is later
\* than that of every log.  The sidecar is written when the detection ran to
\* its end.
_detect_session_continuations(all_files, cache, cache_newer) ==
    IF cache # PyNone /\ cache_newer
    THEN [type |-> "ok", continuations |-> cache.value, cache |-> cache]
    ELSE LET later == 2..Len(all_files)
             raising == {i \in later : Continues(all_files[i].file) = "AttributeError"}
             edges == {i \in later : Continues(all_files[i].file) = "edge"}
             continuations ==
                 [session_id \in {SessionIdOf[all_files[i].name] : i \in edges} |->
                    LET i == CHOOSE j \in edges : SessionIdOf[all_files[j].name] = session_id
                    IN SessionIdOf[all_files[i - 1].name]]
         IN IF raising # {} THEN PyRaise("AttributeError")
            ELSE [type |-> "ok", continuations |-> continuations,
                  cache |-> [value |-> continuations]]

\* lines 274-287
Loaded(acc, i, name, session_id, continues_from, r) ==
    IF r.type # "ok"
    THEN [type |-> "exception", value |-> r.value, self |-> acc.self]
    ELSE [type |-> "ok", self |-> r.self,
          all_messages |-> acc.all_messages \o r.raw_messages,
          session_metadata |->
              DictSet(acc.session_metadata, session_id,
                      [index |-> i - 1, file_path |-> name,
                       message_count |-> Len(r.raw_messages),
                       continues_from |-> continues_from])]
RECURSIVE LoadFiles(_, _, _, _)
LoadFiles(files, i, continuations, acc) ==
    IF i > Len(files) \/ acc.type # "ok" THEN acc
    ELSE LoadFiles(files, i + 1, continuations,
                   Loaded(acc, i, files[i].name, SessionIdOf[files[i].name],
                          DictGet(continuations, SessionIdOf[files[i].name], None),
                          _process_file(acc.self, files[i].file, SessionIdOf[files[i].name])))
\* a limit: None or an int
PyInt(n) == [type |-> "int", value |-> n]

\* lines 329-331
RECURSIVE CountTypes(_)
CountTypes(messages) ==
    IF messages = <<>> THEN <<>>
    ELSE Bump(CountTypes(SubSeq(messages, 1, Len(messages) - 1)), messages[Len(messages)].type, 1)

\* lines 187-198
NewProcessor == [statistics |-> <<>>, running_stats |-> NewRunningStats]

\* mutant of ResetAccumulators: the running statistics are kept
KeepRunningStats(self) == [self EXCEPT !.statistics = NewStatistics]
\* lines 252-264: process_logs starts from empty accumulators
ResetAccumulators(self) ==
    [self EXCEPT !.statistics = NewStatistics, !.running_stats = NewRunningStats]

\* lines 231-337.  What the call leaves in the processor and in the sidecar,
\* and what it returns or raises.  The statistics it returns are what
\* StatisticsGenerator (sniffly/core/stats.py) makes of final_messages and
\* running_stats; they stand here as the running_stats.
Returned(cache, final_messages, after) ==
    [ret |-> PyTuple(final_messages, after.running_stats), self |-> after, cache |-> cache]
\* lines 329-331
WithMessageCounts(self, cache, final_messages) ==
    Returned(cache, final_messages,
             [self EXCEPT !.running_stats.message_counts = CountTypes(final_messages)])
\* lines 324-325
Limited(limit, sorted) ==
    IF limit.type = "int" /\ limit.value # 0 THEN Slice(sorted, limit.value) ELSE sorted
\* lines 292-325
Reconciled(merged_messages, session_metadata) ==
    _deduplicate_all_messages(
        _interactions_to_messages(
            _reconcile_all_tool_counts(
                _merge_duplicate_interactions(
                    _handle_split_interactions(
                        _group_into_interactions(
                            SelectSeq(merged_messages,
                                      LAMBDA msg : msg.type \notin {"summary", "compact_summary"})),
                        session_metadata))))
          \o SelectSeq(merged_messages, LAMBDA msg : msg.type \in {"summary", "compact_summary"}))
Sorted(deduped) ==
    Values(SortDescending(MapSeq(deduped, LAMBDA x : [key |-> x.timestamp, value |-> x])))
\* lines 289-337
AfterLoading(cache, limit, loaded) ==
    IF loaded.type # "ok"
    THEN [ret |-> PyRaise(loaded.value), self |-> loaded.self, cache |-> cache]
    ELSE WithMessageCounts(loaded.self, cache,
                 Limited(limit,
                         Sorted(Reconciled(_merge_and_deduplicate_streaming(loaded.all_messages),
                                           loaded.session_metadata))))
\* lines 266-287
AfterDetection(reset, files, cache, limit, detected) ==
    IF detected.type # "ok"
    THEN [ret |-> PyRaise(detected.value), self |-> reset, cache |-> cache]
    ELSE AfterLoading(detected.cache, limit,
                      LoadFiles(files, 1, detected.continuations,
                                [type |-> "ok", self |-> reset, all_messages |-> <<>>,
                                 session_metadata |-> <<>>]))
ClaudeLogProcessor_process_logs(self, files, cache, cache_newer, limit) ==
    AfterDetection(ResetAccumulators(self), files, cache, limit,
                   _detect_session_continuations(files, cache, cache_newer))
(***************************************************************************)
(* The processor over a directory of two session files.  The lines are     *)
(* drawn from a pool that holds a line of every kind; a run is followed by *)
(* at most one more run over the same directory.                           *)
(***************************************************************************)
MaxLines == 3

UserHello == LogEntry("user", 1, <<TextItem("hello")>>, "u1", "", 0)
UserContinue == LogEntry("user", 0, <<TextItem("continue")>>, "u0", "", 0)
AssistantOne == LogEntry("assistant", 2, <<TextItem("one"), ToolUseItem("t1")>>, "a1", "m1", 1)
AssistantUsed ==
    LogEntry("assistant", 3,
             <<TextItem("Used grep to find it"), ToolUseItem("t1"), ToolUseItem("t2")>>,
             "a2", "m1", 10)
AssistantTwo == LogEntry("assistant", 3, <<TextItem("two")>>, "a3", "", 100)
TaskEntry == [LogEntry("user", 2, <<TextItem("look it up")>>, "t1", "", 0) EXCEPT !.isSidechain = TRUE]
CompactEntry ==
    [LogEntry("user", 2, <<TextItem("compacted")>>, "c1", "", 0) EXCEPT !.isCompactSummary = TRUE]
ToolResultEntry == LogEntry("user", 3, <<ToolResultItem("done")>>, "r1", "", 0)
Pool == {UserHello, UserContinue, AssistantOne, AssistantUsed, AssistantTwo, TaskEntry,
         CompactEntry, SummaryEntry("recap"), ToolResultEntry, GarbageLine, NonObjectLine}

LinesUpTo(n) == UNION {[1..k -> Pool] : k \in 0..n}
Directory(a, b) == <<[name |-> "a.jsonl", file |-> a], [name |-> "b.jsonl", file |-> b]>>
\* Longer logs of three shapes: a turn whose replies open the next session
\* after its compact summary, a reply streamed in three entries, and a turn
\* that a continued session copied.
Replies == {AssistantOne, AssistantUsed, AssistantTwo}
SplitTurns ==
    {Directory(ReadableFile(<<u>>), ReadableFile(<<CompactEntry>> \o r))
       : u \in {UserHello, UserContinue}, r \in [1..2 -> Replies]}
StreamedReplies ==
    {Directory(ReadableFile(<<UserHello>> \o r), ReadableFile(<<>>))
       : r \in [1..3 -> {AssistantOne, AssistantUsed}]}
CopiedTurns ==
    {Directory(ReadableFile(<<u, e>>), ReadableFile(<<v, e>>))
       : u \in {UserHello, UserContinue}, v \in {UserHello, UserContinue}, e \in Pool}
\* A turn that two sessions hold with different replies and tool results.
Tails ==
    {<<AssistantOne>>, <<AssistantTwo>>, <<AssistantTwo, AssistantTwo>>,
     <<AssistantTwo, ToolResultEntry, ToolResultEntry, ToolResultEntry>>}
RivalTurns ==
    {Directory(ReadableFile(<<UserHello>> \o x), ReadableFile(<<UserHello>> \o y))
       : x \in Tails, y \in Tails}
Directories ==
    UNION { {Directory(ReadableFile(a), ReadableFile(b)) : b \in LinesUpTo(MaxLines - Len(a))}
              : a \in LinesUpTo(MaxLines) }
      \cup {Directory(Unreadable, ReadableFile(b)) : b \in LinesUpTo(MaxLines - 2)}
      \cup {Directory(ReadableFile(a), Unreadable) : a \in LinesUpTo(MaxLines - 2)}
      \cup SplitTurns \cup StreamedReplies \cup CopiedTurns \cup RivalTurns
LimitValues == {PyNone, PyInt(0), PyInt(1)}

procfixed == <<memory_cache, now, steps, call, ret, introduced, hit_at, diskvars, aggvars>>

ProcInit ==
    /\ logs \in Directories
    /\ sidecar = PyNone
    /\ processor = PyNone
    /\ returned = PyNone
    /\ previous = PyNone
    /\ memory_cache = NewMemoryCache(1)
    /\ now = 0
    /\ steps = 0
    /\ call = NoCall
    /\ ret = PyNone
    /\ introduced = 0
    /\ hit_at = <<>>
    /\ sources = <<>>
    /\ disk = EmptyCacheDir
    /\ writer = IdleWriter
    /\ saved_src = <<>>
    /\ file_cache = <<>>
    /\ request = NoRequest
    /\ summary = PyNone

\* ClaudeLogProcessor(log_directory).process_logs(limit)
ProcessLogsFirst ==
    /\ processor = PyNone
    /\ \E limit \in LimitValues :
          LET r == ClaudeLogProcessor_process_logs(NewProcessor, logs, sidecar, FALSE, limit)
          IN /\ processor' = r.self
             /\ sidecar' = r.cache
             /\ returned' = [limit |-> limit, ret |-> r.ret]
    /\ UNCHANGED <<logs, previous>>
    /\ UNCHANGED procfixed

\* Something removes .continuation_cache.json between the two runs.
RemoveSidecar ==
    /\ processor # PyNone
    /\ previous = PyNone
    /\ sidecar # PyNone
    /\ sidecar' = PyNone
    /\ UNCHANGED <<logs, processor, returned, previous>>
    /\ UNCHANGED procfixed

\* process_logs(limit) once more over the unchanged directory: by the same
\* object or by a new one, with the sidecar's mtime later than the logs' or
\* not.
ProcessLogsAgain ==
    /\ processor # PyNone
    /\ previous = PyNone
    /\ \E fresh \in BOOLEAN, cache_newer \in BOOLEAN :
          LET self == IF fresh THEN NewProcessor ELSE processor
              r == ClaudeLogProcessor_process_logs(self, logs, sidecar, cache_newer, returned.limit)
          IN /\ processor' = r.self
             /\ sidecar' = r.cache
             /\ returned' = [limit |-> returned.limit, ret |-> r.ret]
             /\ previous' = [returned |-> returned, processor |-> processor]
    /\ UNCHANGED logs
    /\ UNCHANGED procfixed

ProcNext == ProcessLogsFirst \/ RemoveSidecar \/ ProcessLogsAgain

SpecProc == ProcInit /\ [][ProcNext]_vars

(***************************************************************************)
(* Claims about process_logs, checked under SpecProc.                      *)
(***************************************************************************)
Succeeded == returned # PyNone /\ returned.ret.type = "tuple"
Raised == returned # PyNone /\ returned.ret.type = "exception"
\* what process_logs() without a limit returns for the directory
Unlimited == ClaudeLogProcessor_process_logs(NewProcessor, logs, PyNone, FALSE, PyNone).ret.messages
Positions(seq) == 1..Len(seq)
FirstOf(seq, n) == SubSeq(seq, 1, IF n < Len(seq) THEN n ELSE Len(seq))

C14_LimitWitness ==
    /\ Succeeded
    /\ returned.limit = PyInt(1)
    /\ Len(returned.ret.messages) = 1
    /\ Len(Unlimited) > 1

(***************************************************************************)
(* C15: copies of one entry in two session files                           *)
(***************************************************************************)
LinesOf(k) == IF logs[k].file.state = "ok" THEN logs[k].file.lines ELSE <<>>
InFile(k, e) == \E i \in 1..Len(LinesOf(k)) : LinesOf(k)[i] = e
AllLines == LinesOf(1) \o LinesOf(2)
HasMessageId(e) == e.json = "object" /\ e.message # PyNone /\ e.message.id # ""
\* e is one of several different entries of one message_id
InStreamedGroup(e) ==
    /\ HasMessageId(e)
    /\ \E i \in 1..Len(AllLines) :
          /\ HasMessageId(AllLines[i])
          /\ AllLines[i] # e
          /\ AllLines[i].message.id = e.message.id
TypeOfEntry(e) ==
    IF e.type = "summary" THEN "summary"
    ELSE IF e.isCompactSummary THEN "compact_summary"
    ELSE IF e.isSidechain /\ e.type = "user" THEN "task"
    ELSE e.type
\* the Messages of the returned list that come from entry e
MessagesFrom(e) ==
    {i \in Positions(returned.ret.messages) :
        /\ returned.ret.messages[i].uuid = e.uuid
        /\ returned.ret.messages[i].type = TypeOfEntry(e)}
CopiedEntries == {e \in Pool : e.json = "object" /\ InFile(1, e) /\ InFile(2, e)}

\* C15: an entry of any type that both session files hold (same type,
\* timestamp, content and uuid, different session ids) is exactly one Message
\* of the list process_logs returns, wherever the copies sit in their files.
C15_CopiesCollapseToOne ==
    (Succeeded /\ returned.limit = PyNone) =>
        \A e \in CopiedEntries :
            ~InStreamedGroup(e) => Cardinality(MessagesFrom(e)) = 1

(***************************************************************************)
(* C16: the streaming merge                                                *)
(***************************************************************************)
\* the messages process_logs has loaded from the files when phase 2 starts
RawMessages ==
    LET detected == _detect_session_continuations(logs, PyNone, FALSE)
        loaded == LoadFiles(logs, 1, detected.continuations,
                            [type |-> "ok",
                             self |-> [statistics |-> NewStatistics,
                                       running_stats |-> NewRunningStats],
                             all_messages |-> <<>>, session_metadata |-> <<>>])
    IN IF detected.type # "ok" THEN <<>>
       ELSE IF loaded.type # "ok" THEN <<>>
       ELSE loaded.all_messages
MergedMessages == _merge_and_deduplicate_streaming(RawMessages)
StreamedIds ==
    {RawMessages[i].message_id : i \in {j \in Positions(RawMessages) :
        /\ RawMessages[j].type = "assistant"
        /\ RawMessages[j].message_id # ""
        /\ Len(MessageGroup(RawMessages, RawMessages[j].message_id)) >= 2}}
MergedOf(id) ==
    {i \in Positions(MergedMessages) :
        MergedMessages[i].type = "assistant" /\ MergedMessages[i].message_id = id}
FirstEntryOf(id) ==
    CHOOSE i \in Positions(RawMessages) :
        /\ RawMessages[i].type = "assistant" /\ RawMessages[i].message_id = id
        /\ \A j \in 1..(i - 1) :
              ~(RawMessages[j].type = "assistant" /\ RawMessages[j].message_id = id)
Elements(seq) == {seq[i] : i \in Positions(seq)}
\* the texts of the entry a raw message was read from
TextFragmentsOf(msg) ==
    {Fragment(item.text, KindOfText(item.text)) :
        item \in {c \in Elements(msg._raw_data.message.content) : c.type = "text"}}
ToolIdsOf(group) == UNION {Elements(group[i].tools) : i \in Positions(group)}
Timestamps(group) == MapSeq(group, LAMBDA msg : msg.timestamp)
\* all the claim says of the merged Message but for its content
MergedButContent(id, k) ==
    LET group == MessageGroup(RawMessages, id)
        m == MergedMessages[k]
    IN /\ m.tokens = SumTokens(group)
       /\ Elements(m.tools) = ToolIdsOf(group)
       /\ Len(m.tools) = Cardinality(ToolIdsOf(group))
       /\ m.timestamp = SeqMax(Timestamps(group))
       /\ m.start_timestamp = SeqMin(Timestamps(group))
       /\ SubSeq(MergedMessages, 1, k - 1) = SubSeq(RawMessages, 1, FirstEntryOf(id) - 1)
HasEveryText(id, k) ==
    \A i \in Positions(MessageGroup(RawMessages, id)) :
        TextFragmentsOf(MessageGroup(RawMessages, id)[i]) \subseteq Elements(MergedMessages[k].content)

\* C16: the N >= 2 assistant entries of one message_id become exactly one
\* Message; its four token counts are the sums over the N entries, its
\* content holds every distinct text fragment of the entries, its tools hold
\* each tool id once, its timestamp is the latest and its start_timestamp the
\* earliest of the group, and it stands where the group's first entry stood.
C16_StreamingMerge ==
    returned # PyNone =>
        \A id \in StreamedIds :
            /\ Cardinality(MergedOf(id)) = 1
            /\ \A k \in MergedOf(id) : MergedButContent(id, k) /\ HasEveryText(id, k)

\* What holds of the merge: all of the above, for the texts that do not begin
\* with "Used ".
C16_StreamingMergeButUsedTexts ==
    returned # PyNone =>
        \A id \in StreamedIds :
            /\ Cardinality(MergedOf(id)) = 1
            /\ \A k \in MergedOf(id) :
                  /\ MergedButContent(id, k)
                  /\ \A i \in Positions(MessageGroup(RawMessages, id)) :
                        {f \in TextFragmentsOf(MessageGroup(RawMessages, id)[i]) : f.kind # "used"}
                            \subseteq Elements(MergedMessages[k].content)
\* a reply streamed in three entries, two of them different, is merged
C16_Reached ==
    /\ Succeeded
    /\ \E id \in StreamedIds :
          /\ Len(MessageGroup(RawMessages, id)) = 3
          /\ Cardinality(Elements(MessageGroup(RawMessages, id))) >= 2
          /\ \E i \in Positions(returned.ret.messages) :
                returned.ret.messages[i].message_id = id

(***************************************************************************)
(* C17: a turn split over two session files                                *)
(***************************************************************************)
IsPlainUser(e) ==
    /\ e.json = "object" /\ e.type = "user" /\ ~e.isSidechain /\ ~e.isCompactSummary
    /\ \A i \in Positions(e.message.content) : e.message.content[i].type # "tool_result"
IsReply(e) == e.json = "object" /\ e.type = "assistant"
\* file 1 ends with a user message that has no reply; file 2 is a compact
\* summary and then replies only, none of them an entry of a message_id that
\* file 1 holds too
SplitTurn ==
    /\ LinesOf(1) # <<>> /\ IsPlainUser(LinesOf(1)[Len(LinesOf(1))])
    /\ Len(LinesOf(2)) >= 2
    /\ LinesOf(2)[1].json = "object" /\ LinesOf(2)[1].type # "summary"
    /\ LinesOf(2)[1].isCompactSummary
    /\ \A i \in 2..Len(LinesOf(2)) : IsReply(LinesOf(2)[i])
    /\ \A i \in 2..Len(LinesOf(2)), j \in Positions(LinesOf(1)) :
          HasMessageId(LinesOf(1)[j]) => LinesOf(1)[j].message.id # LinesOf(2)[i].message.id
LastUserOfFile1 == LinesOf(1)[Len(LinesOf(1))]
\* the assistant Messages of file 2, after the streaming merge
RepliesOfFile2 ==
    SelectSeq(MergedMessages, LAMBDA msg : msg.type = "assistant" /\ msg.session_id = "b")
\* the Interactions when phase 3 ends
Interactions ==
    LET detected == _detect_session_continuations(logs, PyNone, FALSE)
        loaded == LoadFiles(logs, 1, detected.continuations,
                            [type |-> "ok",
                             self |-> [statistics |-> NewStatistics,
                                       running_stats |-> NewRunningStats],
                             all_messages |-> <<>>, session_metadata |-> <<>>])
        regular_messages == SelectSeq(MergedMessages,
                                LAMBDA msg : msg.type \notin {"summary", "compact_summary"})
    IN _reconcile_all_tool_counts(_merge_duplicate_interactions(
           _handle_split_interactions(_group_into_interactions(regular_messages),
                                      loaded.session_metadata)))
InteractionsOf(uuid) ==
    {k \in Positions(Interactions) : Interactions[k].user_message.uuid = uuid}

\* C17: file 1's last user message has no reply, file 2 opens with a compact
\* summary and goes on with assistant messages only.  Then there is one
\* Interaction of that user message, its assistant messages are file 2's, no
\* Interaction is without a user message, and the returned list holds the
\* user message with interaction_assistant_steps = the number of file 2's
\* assistant messages.
C17_SplitTurnIsMerged ==
    (Succeeded /\ returned.limit = PyNone /\ SplitTurn) =>
        /\ Cardinality(InteractionsOf(LastUserOfFile1.uuid)) = 1
        /\ \A k \in InteractionsOf(LastUserOfFile1.uuid) :
              /\ Interactions[k].user_message.session_id = "a"
              /\ Interactions[k].assistant_messages = RepliesOfFile2
        /\ \A k \in Positions(Interactions) : Interactions[k].user_message.type = "user"
        /\ \E i \in Positions(returned.ret.messages) :
              /\ returned.ret.messages[i].type = "user"
              /\ returned.ret.messages[i].uuid = LastUserOfFile1.uuid
              /\ returned.ret.messages[i].interaction.interaction_assistant_steps
                    = Len(RepliesOfFile2)
        /\ \A i \in Positions(returned.ret.messages) :
              (returned.ret.messages[i].type = "user"
                 /\ returned.ret.messages[i].uuid = LastUserOfFile1.uuid)
              => returned.ret.messages[i].interaction.interaction_assistant_steps
                    = Len(RepliesOfFile2)
\* two replies in file 2, steps = 2
C17_Witness ==
    /\ Succeeded /\ returned.limit = PyNone /\ SplitTurn
    /\ Len(RepliesOfFile2) = 2
    /\ \E i \in Positions(returned.ret.messages) :
          /\ returned.ret.messages[i].uuid = LastUserOfFile1.uuid
          /\ returned.ret.messages[i].interaction.interaction_assistant_steps = 2

(***************************************************************************)
(* C18: malformed lines                                                    *)
(***************************************************************************)
BothReadable == logs[1].file.state = "ok" /\ logs[2].file.state = "ok"
Malformed(line) == line.json # "object"
MalformedLines == SelectSeq(AllLines, Malformed)
WellFormedOnly(k) == ReadableFile(SelectSeq(LinesOf(k), LAMBDA line : ~Malformed(line)))
\* what process_logs returns for the directory without its malformed lines
WithoutMalformed ==
    ClaudeLogProcessor_process_logs(NewProcessor, Directory(WellFormedOnly(1), WellFormedOnly(2)),
                                    PyNone, FALSE, PyNone).ret

\* C18: whatever malformed lines the files hold, process_logs returns
\* normally, the error count is the number of malformed lines, and the other
\* lines yield the messages they yield without them.
C18_MalformedLineSkippedAndCounted ==
    (returned # PyNone /\ previous = PyNone /\ BothReadable /\ MalformedLines # <<>>) =>
        /\ Succeeded
        /\ processor.statistics.errors = Len(MalformedLines)
        /\ returned.limit = PyNone => returned.ret.messages = WithoutMalformed.messages

\* What holds: a line that is no JSON at all is skipped, and the lines around
\* it yield their messages.
C18_GarbageLineSkipped ==
    (returned # PyNone /\ previous = PyNone /\ BothReadable
       /\ MalformedLines # <<>> /\ NonObjectLine \notin Elements(AllLines)) =>
        /\ Succeeded
        /\ returned.limit = PyNone => returned.ret.messages = WithoutMalformed.messages
C18_Reached ==
    /\ Succeeded /\ previous = PyNone /\ BothReadable /\ returned.limit = PyNone
    /\ GarbageLine \in Elements(AllLines)
    /\ Len(returned.ret.messages) >= 2
    /\ processor.statistics.errors = 0
C18_Raised ==
    /\ Raised /\ previous = PyNone /\ BothReadable
    /\ returned.ret.value = "AttributeError"

(***************************************************************************)
(* C19: a session file that cannot be opened                               *)
(***************************************************************************)
OneUnreadable == \E k \in {1, 2} : logs[k].file.state # "ok"
\* what process_logs returns when the unreadable file contributes nothing
WithoutUnreadable ==
    ClaudeLogProcessor_process_logs(NewProcessor,
                                    Directory(ReadableFile(LinesOf(1)), ReadableFile(LinesOf(2))),
                                    PyNone, FALSE, PyNone).ret

\* C19: when one session file cannot be opened, process_logs does not raise,
\* and its result holds the messages of the other session file.
C19_UnreadableFileAbortsOnlyItself ==
    (returned # PyNone /\ OneUnreadable /\ WithoutUnreadable.type = "tuple") =>
        /\ Succeeded
        /\ returned.limit = PyNone => returned.ret.messages = WithoutUnreadable.messages
\* the OSError of open() leaves process_logs although the other file holds
\* messages
C19_Raised ==
    /\ Raised /\ OneUnreadable
    /\ returned.ret.value = "OSError"
    /\ WithoutUnreadable.type = "tuple" /\ WithoutUnreadable.messages # <<>>

(***************************************************************************)
(* C20: a second run over the same input                                   *)
(***************************************************************************)
RanTwice == previous # PyNone

\* C20: process_logs run again over the unchanged directory, by the same
\* object or a new one, with the sidecar of the first run or without it,
\* returns the message list and the running counters the first run returned
\* (and raises what the first run raised).
C20_SecondRunEqualsFirst ==
    RanTwice =>
        /\ returned.ret = previous.returned.ret
        /\ processor.running_stats = previous.processor.running_stats
\* the second run of the same object, over messages with tokens
C20_Witness ==
    /\ RanTwice /\ Succeeded
    /\ returned.limit = PyNone
    /\ Len(returned.ret.messages) >= 2
    /\ returned.ret.stats.tokens.input > 0
    /\ returned.ret = previous.returned.ret

(***************************************************************************)
(* C21: the running token sums and the final message list                  *)
(***************************************************************************)
\* C21: the running token sums process_logs hands on are, for each of the
\* four token fields, the sums of that field over the message list the same
\* call returns.
C21_RunningTokensEqualFinalSum ==
    (Succeeded /\ returned.limit = PyNone) =>
        returned.ret.stats.tokens = SumTokens(returned.ret.messages)

\* What holds: the running sums are the sums over the messages of the
\* per-file parse, before any merge or deduplication.
C21_RunningTokensAreParsedSum ==
    (Succeeded /\ BothReadable) => returned.ret.stats.tokens = SumTokens(RawMessages)
\* a reply without message_id that both files hold: counted twice, kept once
C21_Reached ==
    /\ Succeeded /\ returned.limit = PyNone
    /\ AssistantTwo \in CopiedEntries
    /\ returned.ret.stats.tokens.input = 200
    /\ SumTokens(returned.ret.messages).input = 100

(***************************************************************************)
(* C22: the tool count of an Interaction                                   *)
(***************************************************************************)
DistinctToolIds(x) == Elements(x.tools_used) \ {""}
\* the user Messages of the returned list that carry Interaction x's counts
UserMessagesOf(x) ==
    {i \in Positions(returned.ret.messages) :
        /\ returned.ret.messages[i].type = "user"
        /\ returned.ret.messages[i].uuid = x.user_message.uuid
        /\ returned.ret.messages[i].interaction # NotDerived}

\* C22: no Interaction here has a Task tool.  The count on the user message
\* is the number of distinct tool ids of tools_used, or the number of the
\* Interaction's tool results when these are more.
C22_ToolCountReconciled ==
    (Succeeded /\ returned.limit = PyNone) =>
        \A k \in Positions(Interactions) : \A i \in UserMessagesOf(Interactions[k]) :
            returned.ret.messages[i].interaction.interaction_tool_count
                = IF Len(Interactions[k].tool_results) > Cardinality(DistinctToolIds(Interactions[k]))
                  THEN Len(Interactions[k].tool_results)
                  ELSE Cardinality(DistinctToolIds(Interactions[k]))

\* What holds: the count is the number of distinct tool ids, whatever the
\* number of tool results.
C22_ToolCountIsDistinctToolIds ==
    (Succeeded /\ returned.limit = PyNone) =>
        \A k \in Positions(Interactions) : \A i \in UserMessagesOf(Interactions[k]) :
            returned.ret.messages[i].interaction.interaction_tool_count
                = Cardinality(DistinctToolIds(Interactions[k]))
\* a reply without tools and one tool result: the count is 0
C22_Reached ==
    /\ Succeeded /\ returned.limit = PyNone
    /\ \E k \in Positions(Interactions) :
          /\ Len(Interactions[k].tool_results) = 1
          /\ DistinctToolIds(Interactions[k]) = {}
          /\ \E i \in UserMessagesOf(Interactions[k]) :
                returned.ret.messages[i].interaction.interaction_tool_count = 0

(***************************************************************************)
(* C23: the copy of a duplicated Interaction that the merge keeps.         *)
(***************************************************************************)
\* the Interactions that phase 3 hands to _merge_duplicate_interactions
GroupedInteractions ==
    LET detected == _detect_session_continuations(logs, PyNone, FALSE)
        loaded == LoadFiles(logs, 1, detected.continuations,
                            [type |-> "ok",
                             self |-> [statistics |-> NewStatistics,
                                       running_stats |-> NewRunningStats],
                             all_messages |-> <<>>, session_metadata |-> <<>>])
        regular_messages == SelectSeq(MergedMessages,
                                LAMBDA msg : msg.type \notin {"summary", "compact_summary"})
    IN _handle_split_interactions(_group_into_interactions(regular_messages),
                                  loaded.session_metadata)
MergedInteractions == _merge_duplicate_interactions(GroupedInteractions)
CopiesOf(id) == {k \in Positions(GroupedInteractions) : GroupedInteractions[k].interaction_id = id}
KeptOf(id) == CHOOSE k \in Positions(MergedInteractions) : MergedInteractions[k].interaction_id = id
\* the merge kept this copy: its user message, its replies and its tool results
IsKept(copy) ==
    LET kept == MergedInteractions[KeptOf(copy.interaction_id)]
    IN /\ kept.user_message = copy.user_message
       /\ kept.assistant_messages = copy.assistant_messages
       /\ kept.tool_results = copy.tool_results
CappedOutput(copy) ==
    LET total == SumTokens(copy.assistant_messages).output
    IN IF total > 1000 THEN 1000 ELSE total
\* the five criteria in their order of priority
Criteria(copy) ==
    <<IF copy.assistant_messages # <<>> THEN 1 ELSE 0,
      IF copy.model # "N/A" THEN 1 ELSE 0,
      Len(copy.tools_used),
      Len(copy.tool_results),
      CappedOutput(copy)>>
WinsEarlier(a, b) ==
    \E k \in 1..5 : /\ Criteria(a)[k] > Criteria(b)[k]
                    /\ \A j \in 1..(k - 1) : Criteria(a)[j] = Criteria(b)[j]
WinsBeforeTokens(a, b) ==
    \E k \in 1..4 : /\ Criteria(a)[k] > Criteria(b)[k]
                    /\ \A j \in 1..(k - 1) : Criteria(a)[j] = Criteria(b)[j]

\* C23: of the copies of one Interaction the merge keeps none that another
\* copy beats on the first criterion on which the two differ, the criteria
\* being assistant presence, model presence, tool count, tool-result count
\* and capped output tokens in this order.
C23_BestByPriorityIsKept ==
    (Succeeded /\ BothReadable) =>
        \A a \in Positions(GroupedInteractions) :
            \A b \in CopiesOf(GroupedInteractions[a].interaction_id) :
                WinsEarlier(GroupedInteractions[a], GroupedInteractions[b])
                    => ~IsKept(GroupedInteractions[b])
\* what the merge keeps: the first copy of the highest completeness score,
\* which adds the criteria up and reads no output tokens
C23_HighestScoreIsKept ==
    (Succeeded /\ BothReadable) =>
        \A a \in Positions(GroupedInteractions) :
            \A b \in CopiesOf(GroupedInteractions[a].interaction_id) :
                \/ completeness_score(GroupedInteractions[a])
                       > completeness_score(GroupedInteractions[b])
                \/ /\ completeness_score(GroupedInteractions[a])
                          = completeness_score(GroupedInteractions[b])
                   /\ a < b
                => (IsKept(GroupedInteractions[b]) => IsKept(GroupedInteractions[a]))
\* a copy with more tools loses to a copy with more tool results
C23_ToolsLoseToResults ==
    /\ Succeeded /\ BothReadable
    /\ \E a, b \in Positions(GroupedInteractions) :
           /\ GroupedInteractions[a].interaction_id = GroupedInteractions[b].interaction_id
           /\ WinsBeforeTokens(GroupedInteractions[a], GroupedInteractions[b])
           /\ IsKept(GroupedInteractions[b])
\* a copy with more output tokens loses to an earlier copy with fewer
C23_TokensDoNotCount ==
    /\ Succeeded /\ BothReadable
    /\ \E a, b \in Positions(GroupedInteractions) :
           /\ GroupedInteractions[a].interaction_id = GroupedInteractions[b].interaction_id
           /\ ~WinsBeforeTokens(GroupedInteractions[a], GroupedInteractions[b])
           /\ ~WinsBeforeTokens(GroupedInteractions[b], GroupedInteractions[a])
           /\ WinsEarlier(GroupedInteractions[a], GroupedInteractions[b])
           /\ IsKept(GroupedInteractions[b])

(***************************************************************************)
(* C24: replies at the start of the second session file, and the last      *)
(* Interaction of the first.                                               *)
(***************************************************************************)
RepliesFrom(x, session_id) ==
    SelectSeq(x.assistant_messages, LAMBDA msg : msg.session_id = session_id)
\* an Interaction of file 1 that has a reply of file 1
AnsweredInFile1(x) == x.user_message.session_id = "a" /\ RepliesFrom(x, "a") # <<>>

\* C24: an Interaction of the first session that has an assistant response
\* of its own session takes no assistant message of the next session: its
\* assistant messages are those of its session, and the
\* interaction_assistant_steps of its user message is their number.
C24_AnsweredTurnIsLeftAlone ==
    (Succeeded /\ returned.limit = PyNone /\ BothReadable) =>
        /\ \A k \in Positions(Interactions) :
              AnsweredInFile1(Interactions[k]) => RepliesFrom(Interactions[k], "b") = <<>>
        /\ \A k \in Positions(Interactions) : \A i \in Positions(returned.ret.messages) :
              (/\ AnsweredInFile1(Interactions[k])
               /\ returned.ret.messages[i].type = "user"
               /\ returned.ret.messages[i].interaction # NotDerived
               /\ returned.ret.messages[i].uuid = Interactions[k].user_message.uuid
               /\ returned.ret.messages[i].timestamp = Interactions[k].user_message.timestamp
               /\ returned.ret.messages[i].content = Interactions[k].user_message.content)
              => returned.ret.messages[i].interaction.interaction_assistant_steps
                     = Len(RepliesFrom(Interactions[k], "a"))
\* an answered turn of file 1 with a reply of file 2 attached, counted in
\* the steps of the returned user message
C24_AnsweredTurnGrows ==
    /\ Succeeded /\ returned.limit = PyNone /\ BothReadable
    /\ \E k \in Positions(Interactions) : \E i \in Positions(returned.ret.messages) :
          /\ AnsweredInFile1(Interactions[k])
          /\ Len(RepliesFrom(Interactions[k], "a")) = 1
          /\ Len(RepliesFrom(Interactions[k], "b")) = 1
          /\ returned.ret.messages[i].type = "user"
          /\ returned.ret.messages[i].uuid = Interactions[k].user_message.uuid
          /\ returned.ret.messages[i].interaction # NotDerived
          /\ returned.ret.messages[i].interaction.interaction_assistant_steps = 2

(***************************************************************************)
(* C25, C26: the cache over every interleaving of the calls, and the put   *)
(* of a key that is already cached.                                        *)
(***************************************************************************)
KeysAfter == CacheKeys(memory_cache'.cache)

\* C25: in every reachable state the cache holds at most max_projects
\* entries and the keys with a recorded access time are the cached keys; the
\* evictions counter grows by one with every entry that a put takes out of
\* the cache and with nothing else, so that it equals the number of entries
\* removed by put; a call is one step, so no caller meets a cache between
\* the removal of an entry and the removal of its access time.
C25_CacheInvariants ==
    /\ [](/\ Len(memory_cache.cache) <= memory_cache.max_projects
          /\ DOMAIN memory_cache.last_access = Keys
          /\ Cardinality(Keys) = Len(memory_cache.cache))
    /\ [][ /\ memory_cache'.evictions
               = memory_cache.evictions
                   + (IF PutStep /\ call'.evicted # None THEN 1 ELSE 0)
           /\ (PutStep /\ call'.evicted # None)
                 => /\ call'.evicted \in Keys
                    /\ call'.evicted \notin KeysAfter \/ call'.evicted = call'.path
                    /\ Keys \ KeysAfter \subseteq {call'.evicted}
           /\ (PutStep /\ call'.evicted = None) => Keys \subseteq KeysAfter
         ]_vars
\* a put into a full cache has taken an entry out, after entries were
\* removed by invalidate as well
C25_Witness ==
    /\ call.op = "put" /\ call.full /\ ~call.had
    /\ call.evicted \notin Keys \cup {None}
    /\ ret = PyBool(TRUE)
    /\ memory_cache.evictions = 1
    /\ memory_cache.max_projects >= 2
    /\ Len(memory_cache.cache) = memory_cache.max_projects
    /\ DOMAIN memory_cache.last_access = Keys
\* a put has taken out the entry of its own key and stored the key again:
\* the entry counts as removed
C25_OwnKeyEvicted ==
    /\ call.op = "put" /\ call.had /\ call.full
    /\ call.evicted = call.path
    /\ call.path \in Keys
    /\ memory_cache.evictions = 1
    /\ Len(memory_cache.cache) = memory_cache.max_projects

\* C26: put of an accepted size for a key that is cached, into a cache at
\* capacity, returns True, stores the value under the key with the time of
\* the call as its access time, and leaves every other entry and its access
\* time as they were, whether the other entries are protected or not.
C26_PutOfCachedKeyReplaces ==
    [][ ( PutStep /\ AtCapacity /\ call'.path \in Keys /\ ~Oversized(call'.data) )
        => /\ ret' = PyBool(TRUE)
           /\ Stored(memory_cache', call'.path, call'.data)
           /\ memory_cache'.last_access[call'.path] = now
           /\ KeysAfter = Keys
           /\ \A p \in Keys \ {call'.path} :
                 /\ CacheEntry(memory_cache'.cache, p) = CacheEntry(memory_cache.cache, p)
                 /\ memory_cache'.last_access[p] = memory_cache.last_access[p]
      ]_vars
\* what put does for a cached key at capacity: it is refused when no entry
\* can be evicted, and otherwise evicts the scan's candidate, which may be
\* another key
C26_PutOfCachedKeyEvictsOrFails ==
    [][ ( PutStep /\ AtCapacity /\ call'.path \in Keys /\ ~Oversized(call'.data) )
        => \/ /\ ret' = PyBool(FALSE)
              /\ ~call'.force /\ Unprotected = {}
              /\ memory_cache' = memory_cache
           \/ /\ ret' = PyBool(TRUE)
              /\ call'.evicted \in Keys
              /\ call'.force \/ call'.evicted \in Unprotected
              /\ KeysAfter = (Keys \ {call'.evicted}) \cup {call'.path}
              /\ Stored(memory_cache', call'.path, call'.data)
              /\ memory_cache'.evictions = memory_cache.evictions + 1
      ]_vars
\* the put of a cached key has evicted another key
C26_OtherKeyEvicted ==
    /\ call.op = "put" /\ call.had /\ call.full
    /\ ret = PyBool(TRUE)
    /\ call.evicted \notin {None, call.path}
    /\ call.evicted \notin Keys
\* the put of a cached key was refused by a cache of protected entries
C26_CachedKeyRefused ==
    /\ call.op = "put" /\ call.had /\ call.full /\ ~call.force
    /\ ~Oversized(call.data)
    /\ ret = PyBool(FALSE)
    /\ call.path \in Keys

(***************************************************************************)
(* C27: what the disk cache serves, against the source files as they are.  *)
(***************************************************************************)
\* the contents of the source files: a file of size n holds n records
RecordsOf(src) == [f \in DOMAIN src |-> src[f].size]
\* no handler is in the middle of a reconciliation
BetweenHandlers == writer.pc \in {"idle", "sleep"}

\* C27: between handlers, a value that get_cached_stats or
\* get_cached_messages returns was computed from the source files as they
\* are now, whatever happened to the files while the reconciliation ran.
C27_ServedValueIsOfCurrentSources ==
    BetweenHandlers =>
        /\ get_cached_stats(disk, sources) # PyNone
              => get_cached_stats(disk, sources).of = RecordsOf(sources)
        /\ get_cached_messages(disk, sources) # PyNone
              => get_cached_messages(disk, sources).of = RecordsOf(sources)
\* a completed reconciliation, a file that grew while it ran, and the disk
\* cache serving the statistics and the messages of the shorter file
C27_StaleAfterAppend ==
    /\ writer.pc = "idle" /\ writer.outcome = "reconciled"
    /\ ~has_changes(disk, sources)
    /\ get_cached_stats(disk, sources) # PyNone
    /\ get_cached_messages(disk, sources) # PyNone
    /\ get_cached_stats(disk, sources).of = get_cached_messages(disk, sources).of
    /\ DOMAIN get_cached_stats(disk, sources).of = DOMAIN sources
    /\ \A f \in DOMAIN sources : get_cached_stats(disk, sources).of[f] <= sources[f].size
    /\ \E f \in DOMAIN sources : get_cached_stats(disk, sources).of[f] < sources[f].size

(***************************************************************************)
(* C29: load_dashboard_data after a source file has changed.               *)
(***************************************************************************)
\* a step that is the call of load_dashboard_data
LoadStep ==
    /\ writer.pc = "idle" /\ steps' = steps + 1 /\ sources' = sources
    /\ writer'.kind = "load_dashboard_data"
\* the call returns the pair of the memory cache
ServedFromMemory == LoadStep /\ writer'.outcome = "memory"
\* the memory cache holds the project with a pair computed from other
\* contents than the source files have now
MemoryIsStale ==
    /\ ProjectPath \in Keys
    /\ CacheEntry(memory_cache.cache, ProjectPath).messages.of # RecordsOf(sources)

\* C29: a call of load_dashboard_data that finds has_changes true for the
\* project, and in the memory cache a pair computed before the source files
\* changed, does not return that pair.
C29_ChangedProjectNotServedFromMemory ==
    [][ (LoadStep /\ has_changes(disk, sources) /\ MemoryIsStale) => ~ServedFromMemory ]_vars
\* what the call does: a cached project is served from memory, whatever
\* has_changes would say
C29_MemoryHitIsServed ==
    [][ (LoadStep /\ ProjectPath \in Keys) => ServedFromMemory /\ disk' = disk ]_vars
\* the last call returned the memory pair of a project whose source files
\* have changed since and for which has_changes is true
C29_StaleServed ==
    /\ writer.pc = "idle" /\ writer.kind = "load_dashboard_data" /\ writer.outcome = "memory"
    /\ has_changes(disk, sources)
    /\ disk.metadata.state = "ok"
    /\ MemoryIsStale
    /\ memory_cache.hits >= 1

(***************************************************************************)
(* C28: the parsed messages against the returned list.                     *)
(***************************************************************************)
\* the returned Message r stands for the parsed message m: it is m or a
\* copy of m, or the merge of the streamed group m belongs to
StandsFor(r, m) ==
    /\ r.type = m.type
    /\ \/ r.uuid = m.uuid /\ r.timestamp = m.timestamp
       \/ m.message_id # "" /\ r.message_id = m.message_id
Kept(m) == \E i \in Positions(returned.ret.messages) : StandsFor(returned.ret.messages[i], m)
RealUser(m) == m.type = "user" /\ ~IsToolResult(m)
\* the parsed message at position i, or a fragment of its streamed group,
\* comes after a real user message
AfterRealUser(i) ==
    \E j \in Positions(RawMessages) :
        /\ RealUser(RawMessages[j])
        /\ \A k \in Positions(RawMessages) :
              (\/ k = i
               \/ /\ RawMessages[i].message_id # ""
                  /\ RawMessages[k].type = RawMessages[i].type
                  /\ RawMessages[k].message_id = RawMessages[i].message_id)
              => j < k

\* C28: without a limit, every message that the parse of a file produced is
\* in the returned list, as itself, as a copy or as the merge of its
\* streamed group; messages of type task and assistant or tool-result
\* messages before the first real user message included.
C28_NoParsedMessageLost ==
    (Succeeded /\ returned.limit = PyNone /\ BothReadable) =>
        \A i \in Positions(RawMessages) : Kept(RawMessages[i])
\* what is returned: the summaries, and the messages of the Interactions
\* that the merge of duplicate Interactions keeps
C28_KeptInteractionsAreReturned ==
    (Succeeded /\ returned.limit = PyNone /\ BothReadable) =>
        /\ \A k \in Positions(MergedInteractions) :
              /\ Kept(MergedInteractions[k].user_message)
              /\ \A i \in Positions(MergedInteractions[k].assistant_messages) :
                    Kept(MergedInteractions[k].assistant_messages[i])
              /\ \A i \in Positions(MergedInteractions[k].tool_results) :
                    Kept(MergedInteractions[k].tool_results[i])
        /\ \A i \in Positions(RawMessages) :
              RawMessages[i].type \in {"summary", "compact_summary"} => Kept(RawMessages[i])
\* a task message was parsed and is not returned
C28_TaskLost ==
    /\ Succeeded /\ returned.limit = PyNone /\ BothReadable
    /\ \E i \in Positions(RawMessages) :
          RawMessages[i].type = "task" /\ ~Kept(RawMessages[i])
\* an assistant message before the first real user message was parsed and
\* is not returned
C28_LeadingReplyLost ==
    /\ Succeeded /\ returned.limit = PyNone /\ BothReadable
    /\ \E i \in Positions(RawMessages) :
          /\ RawMessages[i].type = "assistant" /\ ~Kept(RawMessages[i])
          /\ \A j \in 1..(i - 1) : ~RealUser(RawMessages[j])
    /\ \E j \in Positions(RawMessages) : RealUser(RawMessages[j])
\* an assistant message after a real user message was parsed and is not
\* returned: the reply of a copy of a turn that the merge did not keep
C28_RivalReplyLost ==
    /\ Succeeded /\ returned.limit = PyNone /\ BothReadable
    /\ \E i \in Positions(RawMessages) :
          /\ RawMessages[i].type = "assistant" /\ ~Kept(RawMessages[i])
          /\ AfterRealUser(i)

(***************************************************************************)
(* C30: an assistant entry that both session files hold verbatim.          *)
(***************************************************************************)
CopiesOfEntry(e) == Cardinality({i \in Positions(AllLines) : AllLines[i] = e})
\* an assistant entry with a message id, once in either file, and no other
\* entry of its message id
VerbatimCopies ==
    {e \in CopiedEntries : /\ e.type = "assistant" /\ ~e.isSidechain
                           /\ HasMessageId(e) /\ ~InStreamedGroup(e)
                           /\ CopiesOfEntry(e) = 2}
Times(n, tokens) ==
    [input |-> n * tokens.input, output |-> n * tokens.output,
     cache_creation |-> n * tokens.cache_creation, cache_read |-> n * tokens.cache_read]

\* C30: the Message that results from an assistant entry held verbatim by
\* both session files carries the token counts of the entry, once.
C30_CopiedReplyCountsOnce ==
    (Succeeded /\ returned.limit = PyNone) =>
        \A e \in VerbatimCopies : \A i \in MessagesFrom(e) :
            returned.ret.messages[i].tokens = _extract_tokens(e)
\* what the Message carries: the token counts of both copies added up
C30_CopiedReplyCountsTwice ==
    (Succeeded /\ returned.limit = PyNone) =>
        \A e \in VerbatimCopies :
            /\ Cardinality(MessagesFrom(e)) <= 1
            /\ \A i \in MessagesFrom(e) :
                  returned.ret.messages[i].tokens = Times(2, _extract_tokens(e))
\* the reply of a turn that the second session copied is returned once,
\* with twice the tokens of the entry
C30_TokensDoubled ==
    /\ Succeeded /\ returned.limit = PyNone
    /\ AssistantOne \in VerbatimCopies
    /\ Cardinality(MessagesFrom(AssistantOne)) = 1
    /\ \A i \in MessagesFrom(AssistantOne) :
          /\ returned.ret.messages[i].tokens.input = 2
          /\ returned.ret.messages[i].tokens.output = 4

====
